---- MODULE Spec2Model ----
(***************************************************************************)
(* Verification model of ccbuilder: the build coordinator                  *)
(* (builder/builder.py), the compiler store (compilerstore.py) and the     *)
(* nearest-built-compiler lookup.                                          *)
(***************************************************************************)
EXTENDS Integers, Sequences, FiniteSets, TLC

(***************************************************************************)
(* Bounds                                                                  *)
(***************************************************************************)
\* number of worker processes sharing one cache directory
NumWorkers == 2
\* number of build() calls the workers make altogether
MaxCalls == 2
\* length of the first-parent history of the repository
NumCommits == 6
\* number of LLVM commits the store operations are called with
NumStoreCommits == 2
\* processes that hold a PatchDB on the same file
NumProcs == 2
\* commits the patch database is asked about
NumPatchCommits == 2
\* length of the list of bad combinations recorded for one commit
MaxBad == 2
\* length of the longest first-parent history the Patcher works on
MaxHistory == 14
\* length of the longest history find_ranges and _bisection work on
MaxRangeHistory == 7

Workers == 1..NumWorkers

\* utils/utils.py CompilerProject
CompilerProject == {"GCC", "LLVM"}

VARIABLES
    pc,      \* [Workers -> position of the worker inside Builder.build]
    call,    \* [Workers -> arguments of the call in progress]
    fs,      \* [CompilerProject -> state of the install path of that project's commit]
    fd,      \* [Workers -> the WORKER_PID file the worker opened is still linked]
    exc,     \* [Workers -> exception in flight inside the with block]
    ncalls,  \* number of build() calls started
    returned,\* [arguments -> path the last successful call with them returned]
    failed,  \* projects whose commit failed to build and was not built since
    seen,    \* what has happened so far: a forced call, a failed build step
    invocations \* number of times the build recipe was started

bvars == <<pc, call, fs, fd, exc, ncalls, returned, failed, seen, invocations>>

VARIABLES
    compilers,              \* table compilers(project, commit_, prefix)
    failed_compiler_builts, \* table failed_compiler_builts(project, commit_)
    markers,                \* install prefixes that contain the DONE marker
    last                    \* the last CompilerStore call: arguments, result, tables before it

svars == <<compilers, failed_compiler_builts, markers, last>>

VARIABLES
    data,   \* [Procs -> self.data of the PatchDB the process holds]
    file,   \* the JSON document in the file at PatchDB.path
    saved   \* [Procs -> the <<patch, commit>> pairs the process has passed to save]

pvars == <<data, file, saved>>

VARIABLES
    pt      \* the call of the Patcher in progress: its arguments, locals and result

tvars == <<pt>>

vars == <<bvars, svars, pvars, tvars>>

(***************************************************************************)
(* Paths and results                                                       *)
(***************************************************************************)
\* the one commit every revision of the model resolves to
commit == "c0"

get_install_path(cache_prefix, project, c) ==
    LET install_name_prefix == IF project = "LLVM" THEN "clang" ELSE "gcc"
    IN  cache_prefix \o <<install_name_prefix, c>>

get_executable_postfix(project) ==
    LET executable_name == IF project = "LLVM" THEN "clang" ELSE "gcc"
    IN  <<"bin", executable_name>>

cache_prefix == <<"cache">>

\* Builder.build: postfix = get_executable_postfix(project) if get_executable else Path()
Postfix(project, get_executable) ==
    IF get_executable THEN get_executable_postfix(project) ELSE << >>

\* a cached return that forgets the postfix of the executable
CachedReturnNoPostfix(project, get_executable) ==
    [kind |-> "return", value |-> get_install_path(cache_prefix, project, commit)]

\* Builder.build, cached return: install_path / postfix
CachedReturn(project, get_executable) ==
    [kind |-> "return",
     value |-> get_install_path(cache_prefix, project, commit) \o Postfix(project, get_executable)]

\* build_and_install_compiler: res / get_executable_postfix(project) or res
BuiltReturn(project, get_executable) ==
    LET res == get_install_path(cache_prefix, project, commit)
    IN  [kind |-> "return",
         value |-> IF get_executable THEN res \o get_executable_postfix(project) ELSE res]

Raise(e) == [kind |-> "raise", value |-> <<e>>]

NoFile == [dir |-> FALSE, DONE |-> FALSE, pid_exists |-> FALSE, pid |-> 0]

NoResult == [kind |-> "none", value |-> << >>]

Arguments == CompilerProject \X BOOLEAN

\* a call: its arguments, what was known when it began (the path an earlier
\* successful call with the same arguments returned, whether a build of the
\* commit had failed), the recipe invocations it made, whether the temporary
\* directory self.build_dir of its BuildContext exists, and its result
NoCall == [project |-> "GCC", get_executable |-> FALSE, force |-> FALSE,
           first |-> NoResult, after_failure |-> FALSE, ran |-> 0,
           build_dir |-> FALSE, res |-> NoResult]

\* os.kill(worker_pid, 0): the process is still there
Alive(w) == pc[w] # "crashed"

(***************************************************************************)
(* Builder.build, one action per system call                               *)
(***************************************************************************)
\* the call of w, its record being c, ends with result r: a returned path or
\* a raised exception
Leave(w, c, r) ==
    /\ pc' = [pc EXCEPT ![w] = "idle"]
    /\ call' = [call EXCEPT ![w] = [c EXCEPT !.res = r]]
    /\ exc' = [exc EXCEPT ![w] = "none"]
    /\ returned' = IF r.kind = "return"
                   THEN [returned EXCEPT ![<<call[w].project, call[w].get_executable>>] = r]
                   ELSE returned
    /\ failed' = IF r = Raise("BuildException") THEN failed \cup {call[w].project}
                 ELSE IF r.kind = "return" THEN failed \ {call[w].project}
                 ELSE failed

Finish(w, r) == Leave(w, call[w], r)

\* w moves on to the system call at l
Goto(w, l) ==
    /\ pc' = [pc EXCEPT ![w] = l]
    /\ UNCHANGED <<call, exc, returned, failed>>

\* a build that looks into the cache even when force is set
BeginUnforced(w, p, ge, f) ==
    /\ pc[w] = "idle"
    /\ ncalls < MaxCalls
    /\ call' = [call EXCEPT ![w] = [project |-> p, get_executable |-> ge, force |-> f,
                                    first |-> returned[<<p, ge>>],
                                    after_failure |-> p \in failed,
                                    ran |-> 0, build_dir |-> FALSE,
                                    res |-> NoResult]]
    /\ pc' = [pc EXCEPT ![w] = "check_done"]
    /\ ncalls' = ncalls + 1
    /\ seen' = IF f THEN seen \cup {"force"} ELSE seen
    /\ UNCHANGED <<fs, fd, exc, returned, failed, invocations>>
    /\ UNCHANGED <<svars, pvars, tvars>>

\* a caller enters Builder.build(project, rev, get_executable, force)
Begin(w, p, ge, f) ==
    /\ pc[w] = "idle"
    /\ ncalls < MaxCalls
    /\ call' = [call EXCEPT ![w] = [project |-> p, get_executable |-> ge, force |-> f,
                                    first |-> returned[<<p, ge>>],
                                    after_failure |-> p \in failed,
                                    ran |-> 0, build_dir |-> FALSE,
                                    res |-> NoResult]]
    /\ pc' = [pc EXCEPT ![w] = IF f THEN "makedirs" ELSE "check_done"]
    /\ ncalls' = ncalls + 1
    /\ seen' = IF f THEN seen \cup {"force"} ELSE seen
    /\ UNCHANGED <<fs, fd, exc, returned, failed, invocations>>
    /\ UNCHANGED <<svars, pvars, tvars>>

\* line 396: if success_indicator.exists(): return install_path / postfix
CheckDone(w) ==
    /\ pc[w] = "check_done"
    /\ IF fs[call[w].project].DONE
       THEN Finish(w, CachedReturn(call[w].project, call[w].get_executable))
       ELSE Goto(w, "check_path")
    /\ UNCHANGED <<fs, fd, ncalls, seen, invocations>>
    /\ UNCHANGED <<svars, pvars, tvars>>

\* line 398: elif install_path.exists() and ...
CheckPath(w) ==
    /\ pc[w] = "check_path"
    /\ Goto(w, IF fs[call[w].project].dir THEN "elif_exists" ELSE "makedirs")
    /\ UNCHANGED <<fs, fd, ncalls, seen, invocations>>
    /\ UNCHANGED <<svars, pvars, tvars>>

\* _worker_alive, line 347: worker_indicator.exists()
\* (called from line 398 and from the loop condition, line 406)
WorkerAliveExists(w) ==
    /\ pc[w] \in {"elif_exists", "loop_exists"}
    /\ Goto(w, IF fs[call[w].project].pid_exists
               THEN (IF pc[w] = "elif_exists" THEN "elif_read" ELSE "loop_read")
               ELSE (IF pc[w] = "elif_exists" THEN "makedirs" ELSE "post_done"))
    /\ UNCHANGED <<fs, fd, ncalls, seen, invocations>>
    /\ UNCHANGED <<svars, pvars, tvars>>

\* _worker_alive, lines 348-357: open, int(f.read()), os.kill(worker_pid, 0)
WorkerAliveRead(w) ==
    /\ pc[w] \in {"elif_read", "loop_read"}
    /\ LET f == fs[call[w].project]
       IN  IF ~f.pid_exists
           THEN Finish(w, Raise("FileNotFoundError"))
           ELSE IF f.pid = 0
           THEN Finish(w, Raise("ValueError"))
           ELSE Goto(w, IF Alive(f.pid)
                        THEN "loop_done"
                        ELSE (IF pc[w] = "elif_read" THEN "makedirs" ELSE "post_done"))
    /\ UNCHANGED <<fs, fd, ncalls, seen, invocations>>
    /\ UNCHANGED <<svars, pvars, tvars>>

\* line 407: ... and not success_indicator.exists()
LoopDone(w) ==
    /\ pc[w] = "loop_done"
    /\ Goto(w, IF fs[call[w].project].DONE THEN "post_done" ELSE "loop_path")
    /\ UNCHANGED <<fs, fd, ncalls, seen, invocations>>
    /\ UNCHANGED <<svars, pvars, tvars>>

\* line 408: ... and install_path.exists(); then sleep and test the condition again
LoopPath(w) ==
    /\ pc[w] = "loop_path"
    /\ Goto(w, IF fs[call[w].project].dir THEN "loop_exists" ELSE "post_done")
    /\ UNCHANGED <<fs, fd, ncalls, seen, invocations>>
    /\ UNCHANGED <<svars, pvars, tvars>>

\* lines 418-423: return the cached path or raise BuildException
PostDone(w) ==
    /\ pc[w] = "post_done"
    /\ Finish(w, IF fs[call[w].project].DONE
                 THEN CachedReturn(call[w].project, call[w].get_executable)
                 ELSE Raise("BuildException"))
    /\ UNCHANGED <<fs, fd, ncalls, seen, invocations>>
    /\ UNCHANGED <<svars, pvars, tvars>>

(***************************************************************************)
(* BuilderWithoutCache.build -> build_and_install_compiler -> BuildContext *)
(***************************************************************************)
\* the with block of build_and_install_compiler is left with exception e
Throw(w, e) ==
    /\ pc' = [pc EXCEPT ![w] = "exit_remove"]
    /\ exc' = [exc EXCEPT ![w] = e]
    /\ UNCHANGED <<call, returned, failed>>

\* __exit__ returned None: the exception in flight propagates, or build returns
Complete(w) ==
    Finish(w, IF exc[w] = "none"
              THEN BuiltReturn(call[w].project, call[w].get_executable)
              ELSE Raise(exc[w]))

\* descriptors of a WORKER_PID file of project p after the file was unlinked
Unlinked(p) == [v \in Workers |-> IF call[v].project = p THEN FALSE ELSE fd[v]]

\* BuildContext.__enter__, lines 40-41: mkdtemp, os.makedirs(exist_ok=True)
Makedirs(w) ==
    /\ pc[w] = "makedirs"
    /\ fs' = [fs EXCEPT ![call[w].project].dir = TRUE]
    /\ pc' = [pc EXCEPT ![w] = "open_pid"]
    /\ call' = [call EXCEPT ![w].build_dir = TRUE]
    /\ UNCHANGED <<exc, returned, failed>>
    /\ UNCHANGED <<fd, ncalls, seen, invocations>>
    /\ UNCHANGED <<svars, pvars, tvars>>

\* BuildContext.__enter__, line 44: open(install_prefix / "WORKER_PID", "w")
\* creates or truncates the file; __exit__ does not run when __enter__ raises
OpenPid(w) ==
    /\ pc[w] = "open_pid"
    /\ IF fs[call[w].project].dir
       THEN /\ fs' = [fs EXCEPT ![call[w].project].pid_exists = TRUE,
                                ![call[w].project].pid = 0]
            /\ fd' = [fd EXCEPT ![w] = TRUE]
            /\ Goto(w, "write_pid")
       ELSE /\ Finish(w, Raise("FileNotFoundError"))
            /\ UNCHANGED <<fs, fd>>
    /\ UNCHANGED <<ncalls, seen, invocations>>
    /\ UNCHANGED <<svars, pvars, tvars>>

\* BuildContext.__enter__, line 45: f.write(str(os.getpid())) and close
WritePid(w) ==
    /\ pc[w] = "write_pid"
    /\ fs' = IF fd[w] THEN [fs EXCEPT ![call[w].project].pid = w] ELSE fs
    /\ fd' = [fd EXCEPT ![w] = FALSE]
    /\ Goto(w, "worktree")
    /\ UNCHANGED <<ncalls, seen, invocations>>
    /\ UNCHANGED <<svars, pvars, tvars>>

\* build_and_install_compiler, lines 278-281: git worktree add
Worktree(w) ==
    /\ pc[w] = "worktree"
    /\ \E ok \in BOOLEAN :
          /\ IF ok THEN Goto(w, "patch") ELSE Throw(w, "CalledProcessError")
          /\ seen' = IF ok THEN seen ELSE seen \cup {"failure"}
    /\ UNCHANGED <<fs, fd, ncalls, invocations>>
    /\ UNCHANGED <<svars, pvars, tvars>>

\* patch_if_necessary, lines 128-131
Patch(w) ==
    /\ pc[w] = "patch"
    /\ \E ok \in BOOLEAN :
          /\ IF ok THEN Goto(w, "recipe") ELSE Throw(w, "BuildException")
          /\ seen' = IF ok THEN seen ELSE seen \cup {"failure"}
    /\ UNCHANGED <<fs, fd, ncalls, invocations>>
    /\ UNCHANGED <<svars, pvars, tvars>>

\* _run_build_and_install, lines 187-199: the build recipe; a successful
\* install creates the install prefix
Recipe(w) ==
    /\ pc[w] = "recipe"
    /\ invocations' = invocations + 1
    /\ call' = [call EXCEPT ![w].ran = @ + 1]
    /\ \E ok \in BOOLEAN :
          /\ pc' = [pc EXCEPT ![w] = IF ok THEN "touch" ELSE "exit_remove"]
          /\ exc' = [exc EXCEPT ![w] = IF ok THEN "none" ELSE "BuildException"]
          /\ fs' = IF ok THEN [fs EXCEPT ![call[w].project].dir = TRUE] ELSE fs
          /\ seen' = IF ok THEN seen ELSE seen \cup {"failure"}
    /\ UNCHANGED <<fd, ncalls, returned, failed>>
    /\ UNCHANGED <<svars, pvars, tvars>>

\* build_and_install_compiler, line 294: success_indicator.touch()
Touch(w) ==
    /\ pc[w] = "touch"
    /\ IF fs[call[w].project].dir
       THEN /\ fs' = [fs EXCEPT ![call[w].project].DONE = TRUE]
            /\ Goto(w, "exit_remove")
       ELSE /\ Throw(w, "FileNotFoundError")
            /\ UNCHANGED fs
    /\ UNCHANGED <<fd, ncalls, seen, invocations>>
    /\ UNCHANGED <<svars, pvars, tvars>>

\* a BuildContext that keeps its temporary directory
keep_build_dir(c) == c

\* BuildContext.__exit__, line 68: shutil.rmtree(self.build_dir)
rmtree_build_dir(c) == [c EXCEPT !.build_dir = FALSE]

\* BuildContext.__exit__, lines 67-70: the temporary directory is removed,
\* then os.remove(install_prefix / "WORKER_PID")
ExitRemove(w) ==
    /\ pc[w] = "exit_remove"
    /\ IF fs[call[w].project].pid_exists
       THEN /\ fs' = [fs EXCEPT ![call[w].project].pid_exists = FALSE,
                                ![call[w].project].pid = 0]
            /\ fd' = Unlinked(call[w].project)
            /\ pc' = [pc EXCEPT ![w] = "exit_check"]
            /\ call' = [call EXCEPT ![w] = rmtree_build_dir(call[w])]
            /\ UNCHANGED <<exc, returned, failed>>
       ELSE /\ Leave(w, rmtree_build_dir(call[w]), Raise("FileNotFoundError"))
            /\ UNCHANGED <<fs, fd>>
    /\ UNCHANGED <<ncalls, seen, invocations>>
    /\ UNCHANGED <<svars, pvars, tvars>>

\* BuildContext.__exit__, line 73: if not self.success_indicator.exists()
ExitCheck(w) ==
    /\ pc[w] = "exit_check"
    /\ IF fs[call[w].project].DONE
       THEN Complete(w)
       ELSE Goto(w, "exit_rmtree")
    /\ UNCHANGED <<fs, fd, ncalls, seen, invocations>>
    /\ UNCHANGED <<svars, pvars, tvars>>

\* BuildContext.__exit__, line 75: shutil.rmtree(self.install_prefix)
ExitRmtree(w) ==
    /\ pc[w] = "exit_rmtree"
    /\ IF fs[call[w].project].dir
       THEN /\ fs' = [fs EXCEPT ![call[w].project] = NoFile]
            /\ fd' = Unlinked(call[w].project)
            /\ Complete(w)
       ELSE /\ Finish(w, Raise("FileNotFoundError"))
            /\ UNCHANGED <<fs, fd>>
    /\ UNCHANGED <<ncalls, seen, invocations>>
    /\ UNCHANGED <<svars, pvars, tvars>>

\* the process of w is killed inside the with block: __exit__ does not run,
\* the install path, its WORKER_PID and the temporary directory stay
Crash(w) ==
    /\ pc[w] \in {"worktree", "patch", "recipe", "touch"}
    /\ pc' = [pc EXCEPT ![w] = "crashed"]
    /\ UNCHANGED <<call, fs, fd, exc, ncalls, returned, failed, seen, invocations>>
    /\ UNCHANGED <<svars, pvars, tvars>>

(***************************************************************************)
(* CompilerStore (compilerstore.py)                                        *)
(***************************************************************************)
\* the first-parent history of the repository, oldest commit first
Commits == 0..(NumCommits - 1)

\* install prefixes a BuiltCompilerInfo can name
Prefixes == {"prefix_a", "prefix_b"}

None == {}
Some(x) == {x}

\* BuiltCompilerInfo
BuiltCompilerInfo(project, prefix, c) == [project |-> project, prefix |-> prefix, commit |-> c]

\* a row of the table compilers
Row(project, c, prefix) == [project |-> project, commit_ |-> c, prefix |-> prefix]

\* has_previously_failed_to_build:
\* SELECT * FROM failed_compiler_builts WHERE project=? AND commit_=?
has_previously_failed_to_build(ftbl, project, c) ==
    {r \in ftbl : r.project = project /\ r.commit_ = c} # {}

\* a remove_compiler whose DELETE forgets the commit_ column
remove_compiler_of_project(tbl, project, c) ==
    {r \in tbl : r.project # project}

\* remove_compiler: DELETE FROM compilers WHERE project=? AND commit_=?
remove_compiler(tbl, project, c) ==
    {r \in tbl : ~(r.project = project /\ r.commit_ = c)}

\* a get_built_compiler that does not look for the DONE marker
get_built_compiler_unchecked(tbl, mk, project, c) ==
    LET result == {r \in tbl : r.project = project /\ r.commit_ = c}
    IN  IF result = {}
        THEN [ret |-> None, compilers |-> tbl]
        ELSE LET row == CHOOSE r \in result : TRUE
             IN  [ret |-> Some(BuiltCompilerInfo(project, row.prefix, c)), compilers |-> tbl]

\* get_built_compiler: the entry returned and the table after the call
get_built_compiler(tbl, mk, project, c) ==
    LET result == {r \in tbl : r.project = project /\ r.commit_ = c}
    IN  IF result = {}
        THEN [ret |-> None, compilers |-> tbl]
        ELSE LET row == CHOOSE r \in result : TRUE
                 bci == BuiltCompilerInfo(project, row.prefix, c)
             IN  IF bci.prefix \notin mk
                 THEN [ret |-> None, compilers |-> remove_compiler(tbl, project, c)]
                 ELSE [ret |-> Some(bci), compilers |-> tbl]

\* built_commits: SELECT commit_ FROM compilers WHERE project=?
built_commits(tbl, project) == {r.commit_ : r \in {x \in tbl : x.project = project}}

\* add_compilers, lines 98-109: the loop over the given compilers; evictions
\* made by get_built_compiler are committed at once
RECURSIVE CollectCompilers(_, _, _, _, _, _)
CollectCompilers(list, tbl, ftbl, mk, new_compilers, remove_from_failed) ==
    IF list = << >>
    THEN [raised |-> "none", compilers |-> tbl,
          new_compilers |-> new_compilers, remove_from_failed |-> remove_from_failed]
    ELSE LET compiler == Head(list)
             g == get_built_compiler(tbl, mk, compiler.project, compiler.commit)
             already_stored == g.ret
         IN  IF already_stored # None /\ already_stored # Some(compiler)
             THEN [raised |-> "AssertionError", compilers |-> g.compilers,
                   new_compilers |-> new_compilers, remove_from_failed |-> remove_from_failed]
             ELSE CollectCompilers(
                    Tail(list), g.compilers, ftbl, mk,
                    IF already_stored # None
                    THEN new_compilers
                    ELSE Append(new_compilers,
                                Row(compiler.project, compiler.commit, compiler.prefix)),
                    IF has_previously_failed_to_build(ftbl, compiler.project, compiler.commit)
                    THEN remove_from_failed \cup {[project |-> compiler.project,
                                                   commit_ |-> compiler.commit]}
                    ELSE remove_from_failed)

\* executemany("INSERT INTO compilers VALUES (?, ?, ?)") under UNIQUE(project, commit_)
RECURSIVE InsertCompilers(_, _)
InsertCompilers(tbl, rows) ==
    IF rows = << >>
    THEN [raised |-> "none", compilers |-> tbl]
    ELSE LET r == Head(rows)
         IN  IF \E x \in tbl : x.project = r.project /\ x.commit_ = r.commit_
             THEN [raised |-> "IntegrityError", compilers |-> tbl]
             ELSE InsertCompilers(tbl \cup {r}, Tail(rows))

\* an add_compilers that clears failure records only when it inserts a row
add_compilers_new_only(tbl, ftbl, mk, list) ==
    LET c == CollectCompilers(list, tbl, ftbl, mk, << >>, {})
        i == InsertCompilers(c.compilers, c.new_compilers)
    IN  IF c.raised # "none"
        THEN [raised |-> c.raised, compilers |-> c.compilers, failed |-> ftbl]
        ELSE IF i.raised # "none"
        THEN [raised |-> i.raised, compilers |-> c.compilers, failed |-> ftbl]
        ELSE [raised |-> "none", compilers |-> i.compilers,
              failed |-> IF c.new_compilers = << >> THEN ftbl
                         ELSE ftbl \ c.remove_from_failed]

\* add_compilers: the tables after the call and the exception it raised
add_compilers(tbl, ftbl, mk, list) ==
    LET c == CollectCompilers(list, tbl, ftbl, mk, << >>, {})
        i == InsertCompilers(c.compilers, c.new_compilers)
    IN  IF c.raised # "none"
        THEN [raised |-> c.raised, compilers |-> c.compilers, failed |-> ftbl]
        ELSE IF i.raised # "none"
        THEN [raised |-> i.raised, compilers |-> c.compilers, failed |-> ftbl]
        ELSE [raised |-> "none", compilers |-> i.compilers,
              failed |-> ftbl \ c.remove_from_failed]

\* the record of a call: its arguments, its result, the tables before it
NoInfo == BuiltCompilerInfo("GCC", "prefix_a", 0)

Called(op, info, ret, raised, tbl, ftbl) ==
    [op |-> op, info |-> info, lower_bound |-> 0, upper_bound |-> 0,
     ret |-> ret, raised |-> raised, compilers |-> tbl, failed |-> ftbl]

NoCalled == Called("none", NoInfo, None, "none", {}, {})

\* no call is being returned from
Ready == last = NoCalled

\* the caller takes the result of the call it made
Return ==
    /\ ~Ready
    /\ last' = NoCalled
    /\ UNCHANGED <<compilers, failed_compiler_builts, markers, bvars, pvars, tvars>>

\* add_compiler(compiler): self.add_compilers([compiler])
AddCompiler(info) ==
    LET r == add_compilers(compilers, failed_compiler_builts, markers, <<info>>)
    IN  /\ Ready
        /\ compilers' = r.compilers
        /\ failed_compiler_builts' = r.failed
        /\ last' = Called("add_compiler", info, None, r.raised,
                          compilers, failed_compiler_builts)
        /\ UNCHANGED <<markers, bvars, pvars, tvars>>

\* scan_directory_and_populate_store: add_compilers(scan_directory_for_compilers(path))
AddCompilers(list) ==
    LET r == add_compilers(compilers, failed_compiler_builts, markers, list)
    IN  /\ Ready
        /\ compilers' = r.compilers
        /\ failed_compiler_builts' = r.failed
        /\ last' = Called("add_compilers", NoInfo, None, r.raised, {}, {})
        /\ UNCHANGED <<markers, bvars, pvars, tvars>>

\* add_failed_to_build_compiler(project, commit)
AddFailedToBuildCompiler(project, c) ==
    /\ Ready
    /\ failed_compiler_builts' =
          IF has_previously_failed_to_build(failed_compiler_builts, project, c)
          THEN failed_compiler_builts
          ELSE failed_compiler_builts \cup {[project |-> project, commit_ |-> c]}
    /\ last' = NoCalled
    /\ UNCHANGED <<compilers, markers, bvars, pvars, tvars>>

\* remove_from_previously_failed_to_build(project, commit)
RemoveFromPreviouslyFailedToBuild(project, c) ==
    /\ Ready
    /\ failed_compiler_builts' =
          {r \in failed_compiler_builts : ~(r.project = project /\ r.commit_ = c)}
    /\ last' = NoCalled
    /\ UNCHANGED <<compilers, markers, bvars, pvars, tvars>>

\* clear_previously_failed_to_build()
ClearPreviouslyFailedToBuild ==
    /\ Ready
    /\ failed_compiler_builts' = {}
    /\ last' = NoCalled
    /\ UNCHANGED <<compilers, markers, bvars, pvars, tvars>>

\* remove_compiler(project, commit)
RemoveCompiler(project, c) ==
    /\ Ready
    /\ compilers' = remove_compiler(compilers, project, c)
    /\ last' = NoCalled
    /\ UNCHANGED <<failed_compiler_builts, markers, bvars, pvars, tvars>>

\* get_built_compiler(project, commit)
GetBuiltCompiler(project, c) ==
    LET g == get_built_compiler(compilers, markers, project, c)
    IN  /\ Ready
        /\ compilers' = g.compilers
        /\ last' = Called("get_built_compiler", BuiltCompilerInfo(project, "prefix_a", c),
                          g.ret, "none", compilers, failed_compiler_builts)
        /\ UNCHANGED <<failed_compiler_builts, markers, bvars, pvars, tvars>>

\* a build writes the DONE marker of an install prefix
TouchMarker(prefix) ==
    /\ Ready
    /\ prefix \notin markers
    /\ markers' = markers \cup {prefix}
    /\ last' = NoCalled
    /\ UNCHANGED <<compilers, failed_compiler_builts, bvars, pvars, tvars>>

\* an install prefix is deleted from the disk
RemoveMarker(prefix) ==
    /\ Ready
    /\ prefix \in markers
    /\ markers' = markers \ {prefix}
    /\ last' = NoCalled
    /\ UNCHANGED <<compilers, failed_compiler_builts, bvars, pvars, tvars>>

\* CompilerStore.__init__: CREATE TABLE IF NOT EXISTS on a new database file
StoreInit ==
    /\ compilers = {}
    /\ failed_compiler_builts = {}
    /\ markers = {}
    /\ last = NoCalled

StoreCommits == 0..(NumStoreCommits - 1)

\* the keys the store operations are called with
StoreKeys == {<<"LLVM", c>> : c \in StoreCommits} \cup {<<"GCC", 0>>}

StoreInfos == {BuiltCompilerInfo(k[1], x, k[2]) : k \in StoreKeys, x \in Prefixes}

\* scan_directory_for_compilers: one entry per directory that contains DONE
ScanLists ==
    LET found == {i \in StoreInfos : i.prefix \in markers}
    IN  {l \in found \X found : l[1].prefix # l[2].prefix}

NextStore ==
    \/ \E info \in StoreInfos : AddCompiler(info)
    \/ \E list \in ScanLists : AddCompilers(list)
    \/ \E k \in StoreKeys : AddFailedToBuildCompiler(k[1], k[2])
    \/ \E k \in StoreKeys : RemoveFromPreviouslyFailedToBuild(k[1], k[2])
    \/ ClearPreviouslyFailedToBuild
    \/ \E k \in StoreKeys : RemoveCompiler(k[1], k[2])
    \/ \E k \in StoreKeys : GetBuiltCompiler(k[1], k[2])
    \/ \E x \in Prefixes : TouchMarker(x)
    \/ \E x \in Prefixes : RemoveMarker(x)
    \/ Return

(***************************************************************************)
(* Repository (utils/repository.py) over a linear first-parent history     *)
(***************************************************************************)
\* git merge-base --is-ancestor rev_old rev_young
is_ancestor(rev_old, rev_young) == rev_old <= rev_young

\* git rev-list --first-parent younger: younger and its first parents, newest first
FirstParents(younger) == [i \in 1..(younger + 1) |-> younger + 1 - i]

\* direct_first_parent_path: rev-list --first-parent younger ^older, then older
direct_first_parent_path(older, younger) ==
    SelectSeq(FirstParents(younger), LAMBDA c : ~is_ancestor(c, older)) \o <<older>>

\* reversed(list)
Reversed(list) == [i \in 1..Len(list) |-> list[Len(list) + 1 - i]]

Elements(list) == {list[i] : i \in 1..Len(list)}

(***************************************************************************)
(* CompilerStore.get_closest_built_compiler_in_range                       *)
(***************************************************************************)
\* lines 311-325: the neighbour of revision in commits (Python indices i - 1)
target_commit(commits, revision) ==
    LET i == CHOOSE j \in 1..Len(commits) : commits[j] = revision
    IN  IF i = 1 THEN commits[2]
        ELSE IF i = Len(commits) THEN commits[Len(commits) - 1]
        ELSE commits[i + 1]

\* the entry returned, the exception raised and the table after the call
get_closest_built_compiler_in_range(tbl, mk, project, revision, lower_bound, upper_bound) ==
    IF ~is_ancestor(revision, upper_bound)
    THEN [ret |-> None, raised |-> "AssertionError", compilers |-> tbl]
    ELSE
    LET built == get_built_compiler(tbl, mk, project, revision)
    IN  IF built.ret # None
        THEN [ret |-> built.ret, raised |-> "none", compilers |-> built.compilers]
        ELSE
        LET commits_built == built_commits(built.compilers, project)
            commits == Reversed(SelectSeq(
                           direct_first_parent_path(lower_bound, upper_bound),
                           LAMBDA c : /\ (c \in commits_built \/ c = revision)
                                      /\ c # lower_bound
                                      /\ c # upper_bound))
        IN  IF revision \notin Elements(commits)
            THEN IF ~is_ancestor(revision, lower_bound)
                 THEN [ret |-> None, raised |-> "AssertionError",
                       compilers |-> built.compilers]
                 ELSE IF commits # << >>
                 THEN LET g == get_built_compiler(built.compilers, mk, project, commits[1])
                      IN  [ret |-> g.ret, raised |-> "none", compilers |-> g.compilers]
                 ELSE [ret |-> None, raised |-> "none", compilers |-> built.compilers]
            ELSE IF Len(commits) = 1
            THEN [ret |-> None, raised |-> "none", compilers |-> built.compilers]
            ELSE LET g == get_built_compiler(built.compilers, mk, project,
                                             target_commit(commits, revision))
                 IN  [ret |-> g.ret, raised |-> "none", compilers |-> g.compilers]

\* get_closest_built_compiler_in_range(project, revision, lower_bound, upper_bound, repo)
GetClosestBuiltCompilerInRange(project, revision, lower_bound, upper_bound) ==
    LET r == get_closest_built_compiler_in_range(compilers, markers, project, revision,
                                                 lower_bound, upper_bound)
    IN  /\ Ready
        /\ compilers' = r.compilers
        /\ last' = [Called("get_closest_built_compiler_in_range",
                           BuiltCompilerInfo(project, "prefix_a", revision),
                           r.ret, r.raised, compilers, failed_compiler_builts)
                    EXCEPT !.lower_bound = lower_bound, !.upper_bound = upper_bound]
        /\ UNCHANGED <<failed_compiler_builts, markers, bvars, pvars, tvars>>

\* CachedBisectionCallback.shift_tested_commit: the commit returned, the
\* exception raised and the table after the call
shift_tested_commit(tbl, mk, project, tested, lower_bound, upper_bound) ==
    LET nearest_commit == get_closest_built_compiler_in_range(tbl, mk, project, tested,
                                                              lower_bound, upper_bound)
    IN  IF nearest_commit.raised # "none"
        THEN [ret |-> None, raised |-> nearest_commit.raised,
              compilers |-> nearest_commit.compilers]
        ELSE IF nearest_commit.ret = None
        THEN [ret |-> Some(tested), raised |-> "none",
              compilers |-> nearest_commit.compilers]
        ELSE [ret |-> {built.commit : built \in nearest_commit.ret}, raised |-> "none",
              compilers |-> nearest_commit.compilers]

\* shift_tested_commit(commit, lower_bound, upper_bound), tested being the commit
ShiftTestedCommit(project, tested, lower_bound, upper_bound) ==
    LET r == shift_tested_commit(compilers, markers, project, tested,
                                 lower_bound, upper_bound)
    IN  /\ Ready
        /\ compilers' = r.compilers
        /\ last' = [Called("shift_tested_commit",
                           BuiltCompilerInfo(project, "prefix_a", tested),
                           r.ret, r.raised, compilers, failed_compiler_builts)
                    EXCEPT !.lower_bound = lower_bound, !.upper_bound = upper_bound]
        /\ UNCHANGED <<failed_compiler_builts, markers, bvars, pvars, tvars>>

\* the compilers of the project whose history is searched
ClosestInfos == {BuiltCompilerInfo("LLVM", x, c) : x \in Prefixes, c \in Commits}

NextClosest ==
    \/ \E info \in ClosestInfos : AddCompiler(info)
    \/ \E x \in Prefixes : TouchMarker(x)
    \/ \E x \in Prefixes : RemoveMarker(x)
    \/ \E revision \in Commits, lower_bound \in Commits, upper_bound \in Commits :
          /\ lower_bound < upper_bound
          /\ GetClosestBuiltCompilerInRange("LLVM", revision, lower_bound, upper_bound)
    \/ Return

\* the rows of the table compilers that are followed in SpecShift
MaxRows == 2

\* a bisection asks the callback and the store about a store of few compilers
NextShift ==
    \/ /\ Cardinality(compilers) < MaxRows
       /\ \E info \in ClosestInfos : AddCompiler(info)
    \/ \E x \in Prefixes : TouchMarker(x)
    \/ \E x \in Prefixes : RemoveMarker(x)
    \/ \E revision \in Commits, lower_bound \in Commits, upper_bound \in Commits :
          /\ lower_bound < upper_bound
          /\ \/ GetClosestBuiltCompilerInRange("LLVM", revision, lower_bound, upper_bound)
             \/ ShiftTestedCommit("LLVM", revision, lower_bound, upper_bound)
    \/ Return

(***************************************************************************)
(* PatchDB (patcher/patchdatabase.py)                                      *)
(***************************************************************************)
Procs == 1..NumProcs

PatchCommits == 1..NumPatchCommits

\* basenames of patch files, as strings of characters
PatchNames == {<<"a">>, <<"b">>}

\* the directory of the database file, and another directory
patch_path_prefix == "patches"
PatchDirs == {patch_path_prefix, "elsewhere"}

\* Path(dir) / name
Path(dir, name) == [dir |-> dir, name |-> name]

\* os.path.basename(patch)
basename(patch) == patch.name

\* compiler_config.compiler.to_string()
Compilers == {"gcc", "clang"}

\* json.load of a file that holds {}
EmptyData == [patches |-> << >>, bad |-> << >>, manual |-> {}]

\* d[k] = v on a dict
Put(d, k, v) == [x \in (DOMAIN d) \cup {k} |-> IF x = k THEN v ELSE d[x]]

\* set(list)
ToSet(list) == {list[i] : i \in 1..Len(list)}

\* a save that overwrites the recorded commits of the patch
save_overwrite(d, patch, commits) ==
    [d EXCEPT !.patches = Put(d.patches, basename(patch), ToSet(commits))]

\* PatchDB.save; list(set(...)) keeps one copy of each commit in no fixed order
save(d, patch, commits) ==
    LET patch_basename == basename(patch)
        extended == IF patch_basename \notin DOMAIN d.patches
                    THEN ToSet(commits)
                    ELSE d.patches[patch_basename] \cup ToSet(commits)
    IN  [d EXCEPT !.patches = Put(d.patches, patch_basename, extended)]

\* "".join(strings)
RECURSIVE Join(_)
Join(strings) ==
    IF strings = << >> THEN << >> ELSE Head(strings) \o Join(Tail(strings))

\* hash(str): equal strings have equal hashes; collisions are left out
hash(str) == str

\* the order of str.__lt__ on the basenames
Less(a, b) == a = <<"a">> /\ b = <<"b">>

\* sorted(list) of a list of basenames
sorted(list) ==
    CHOOSE r \in [1..Len(list) -> ToSet(list)] :
        /\ \A x \in ToSet(list) :
               Cardinality({i \in 1..Len(list) : r[i] = x})
                 = Cardinality({i \in 1..Len(list) : list[i] = x})
        /\ \A i \in 1..Len(list), j \in 1..Len(list) : i < j => ~Less(r[j], r[i])

\* [str(os.path.basename(patch)) for patch in patches]
Basenames(patches) == [i \in 1..Len(patches) |-> basename(patches[i])]

\* PatchDB.save_bad
save_bad(d, patches, c, compiler) ==
    LET patches_str == Basenames(patches)
        key == <<compiler, c>>
        list_bad == IF key \in DOMAIN d.bad THEN d.bad[key] ELSE << >>
    IN  [d EXCEPT !.bad = Put(d.bad, key, Append(list_bad, patches_str))]

\* PatchDB.clear_bad
clear_bad(d, patches, c, compiler) ==
    LET patches_str == Basenames(patches)
        key == <<compiler, c>>
    IN  IF key \notin DOMAIN d.bad
        THEN d
        ELSE LET good_hash == hash(Join(patches_str))
                 list_bad == SelectSeq(d.bad[key],
                                       LAMBDA combo : hash(Join(combo)) # good_hash)
             IN  [d EXCEPT !.bad = Put(d.bad, key, list_bad)]

\* PatchDB.is_known_bad
is_known_bad(d, patches, c, compiler) ==
    LET patches_str == Basenames(patches)
        key == <<compiler, c>>
    IN  IF key \notin DOMAIN d.bad
        THEN FALSE
        ELSE LET current_hash == hash(Join(patches_str))
             IN  \E i \in 1..Len(d.bad[key]) :
                     current_hash = hash(Join(sorted(d.bad[key][i])))

\* a required_patches that does not look at the commits of a patch
required_patches_of_any(d, c) ==
    {Path(patch_path_prefix, patch) : patch \in DOMAIN d.patches}

\* PatchDB.required_patches; the keys "bad" and "manual" of self.data hold a
\* dict of compiler names and a list of "compiler rev" strings, which hold no commit
required_patches(d, c) ==
    {Path(patch_path_prefix, patch) : patch \in {n \in DOMAIN d.patches : c \in d.patches[n]}}

\* PatchDB.manual_intervention_required
manual_intervention_required(d, compiler, rev) ==
    [d EXCEPT !.manual = d.manual \cup {<<compiler, rev>>}]

\* the record of a PatchDB call: the process, the arguments, the result,
\* self.data and the file before the call
PatchCalled(op, proc, patches, commits, ret) ==
    [op |-> op, proc |-> proc, patches |-> patches, commits |-> commits, ret |-> ret,
     data |-> data[proc], file |-> file]

\* _save_db: json.dump(db.data) into the file at db.path
SaveDb(proc, d) ==
    /\ data' = [data EXCEPT ![proc] = d]
    /\ file' = d

Save(proc, patch, commits) ==
    /\ Ready
    /\ SaveDb(proc, save(data[proc], patch, commits))
    /\ saved' = [saved EXCEPT ![proc] = @ \cup {<<patch, c>> : c \in ToSet(commits)}]
    /\ last' = PatchCalled("save", proc, <<patch>>, commits, FALSE)
    /\ UNCHANGED <<compilers, failed_compiler_builts, markers, bvars, tvars>>

SaveBad(proc, patches, c, compiler) ==
    /\ Ready
    /\ <<compiler, c>> \in DOMAIN data[proc].bad => Len(data[proc].bad[<<compiler, c>>]) < MaxBad
    /\ SaveDb(proc, save_bad(data[proc], patches, c, compiler))
    /\ UNCHANGED saved
    /\ last' = PatchCalled("save_bad", proc, patches, <<c>>, FALSE)
    /\ UNCHANGED <<compilers, failed_compiler_builts, markers, bvars, tvars>>

ClearBad(proc, patches, c, compiler) ==
    /\ Ready
    /\ SaveDb(proc, clear_bad(data[proc], patches, c, compiler))
    /\ UNCHANGED saved
    /\ last' = PatchCalled("clear_bad", proc, patches, <<c>>, FALSE)
    /\ UNCHANGED <<compilers, failed_compiler_builts, markers, bvars, tvars>>

ManualInterventionRequired(proc, compiler, rev) ==
    /\ Ready
    /\ SaveDb(proc, manual_intervention_required(data[proc], compiler, rev))
    /\ UNCHANGED saved
    /\ last' = NoCalled
    /\ UNCHANGED <<compilers, failed_compiler_builts, markers, bvars, tvars>>

\* PatchDB.__init__: self.data = json.load(f)
PatchInit ==
    /\ file = EmptyData
    /\ data = [proc \in Procs |-> EmptyData]
    /\ saved = [proc \in Procs |-> {}]

\* the patch files the database is called with
Patches == {Path(patch_path_prefix, <<"a">>), Path(patch_path_prefix, <<"b">>),
            Path("elsewhere", <<"a">>)}

\* the lists of commits save is called with
CommitLists == UNION {[1..n -> PatchCommits] : n \in 0..2}

\* the combinations of patches save_bad, clear_bad and is_known_bad are called with
Combinations ==
    {<<x>> : x \in Patches} \cup
    {l \in Patches \X Patches : basename(l[1]) # basename(l[2])}

\* the process that holds the one PatchDB of SpecPatchDB
Owner == CHOOSE proc \in Procs : TRUE

NextPatchDB ==
    \/ \E patch \in Patches, commits \in CommitLists : Save(Owner, patch, commits)
    \/ \E patches \in Combinations : SaveBad(Owner, patches, 1, "gcc")
    \/ \E patches \in Combinations : ClearBad(Owner, patches, 1, "gcc")
    \/ ManualInterventionRequired(Owner, "gcc", 1)
    \/ Return

\* the patch files in the directory of the database
OwnPatches == {patch \in Patches : patch.dir = patch_path_prefix}

\* several processes hold a PatchDB on the same file and call it in turn
NextPatchFile ==
    \/ \E proc \in Procs, patch \in OwnPatches, c \in PatchCommits : Save(proc, patch, <<c>>)
    \/ \E proc \in Procs : SaveBad(proc, <<Path(patch_path_prefix, <<"a">>)>>, 1, "gcc")
    \/ \E proc \in Procs : ManualInterventionRequired(proc, "gcc", 1)
    \/ Return

(***************************************************************************)
(* Patcher (patcher/patcher.py) on a linear first-parent history           *)
(***************************************************************************)
\* the commits 0..n-1 of a history, oldest first
History(n) == 0..(n - 1)

\* midpoint = "": no commit
NoCommit == -1

NoPatcher == [op |-> "none", pc |-> "idle"]

\* Builder.build of a commit of the history: commits older than the boundary build
Builds(c) == c < pt.boundary

\* repo.rev_to_commit(f"{rev}~{k}"): the k-th first parent, if there is one
Ancestor(rev, k) == IF rev - k >= 0 THEN rev - k ELSE NoCommit

\* a rev-list --bisect that leaves out ^good: a commit that halves the
\* ancestors of bad best
next_bisection_commit_of_all(good, bad) ==
    LET range == {c \in History(MaxHistory) : c <= bad}
        weight(c) == LET reach == c + 1
                         rest == Cardinality(range) - reach
                     IN  IF reach <= rest THEN reach ELSE rest
    IN  {c \in range : \A d \in range : weight(d) <= weight(c)}

\* git rev-list --bisect --first-parent bad ^good: a commit of the range
\* (good, bad] that halves it best, "" if the range is empty
next_bisection_commit(good, bad) ==
    LET range == {c \in History(MaxHistory) : good < c /\ c <= bad}
        weight(c) == LET reach == c - good
                         rest == Cardinality(range) - reach
                     IN  IF reach <= rest THEN reach ELSE rest
    IN  IF range = {} THEN {NoCommit}
        ELSE {c \in range : \A d \in range : weight(d) <= weight(c)}

\* a call that ended: its result or the exception it raised
Ended(ret, raised) == [pt EXCEPT !.pc = "done", !.ret = ret, !.raised = raised]

\* find_introducer(project, repo, broken_rev) on a history of n commits whose
\* commits from boundary on fail to build; oldest_possible_commit is the
\* merge base of the oldest release and main
FindIntroducer(n, boundary, oldest_possible_commit, broken_rev) ==
    /\ pt = NoPatcher
    /\ pt' = [op |-> "find_introducer", pc |-> "search", n |-> n, boundary |-> boundary,
              oldest_possible_commit |-> oldest_possible_commit,
              broken_rev |-> broken_rev, exp |-> 0, hit_upper_bound |-> FALSE,
              current_commit |-> broken_rev, prev_commit |-> broken_rev,
              good |-> NoCommit, bad |-> NoCommit, midpoint |-> NoCommit,
              failure_is_good |-> FALSE, ret |-> NoCommit, raised |-> "none"]
    /\ UNCHANGED <<bvars, svars, pvars>>

\* find_introducer, lines 507-530: one iteration of the search for a
\* buildable ancestor
Search ==
    /\ pt.op = "find_introducer"
    /\ pt.pc = "search"
    /\ LET prev_commit == pt.current_commit
           parsed == Ancestor(pt.broken_rev, 2^(pt.exp) + 10)
       IN  pt' =
             IF parsed = NoCommit
             THEN Ended(NoCommit, "RepositoryException")
             ELSE IF pt.hit_upper_bound
             THEN Ended(NoCommit, "Exception")
             ELSE LET clamp == ~is_ancestor(pt.oldest_possible_commit, parsed)
                      current_commit == IF clamp THEN pt.oldest_possible_commit ELSE parsed
                  IN  IF Builds(current_commit)
                      THEN [pt EXCEPT !.pc = "bisect_build", !.prev_commit = prev_commit,
                                      !.current_commit = current_commit,
                                      !.hit_upper_bound = clamp,
                                      !.good = current_commit, !.bad = prev_commit]
                      ELSE [pt EXCEPT !.prev_commit = prev_commit,
                                      !.current_commit = current_commit,
                                      !.hit_upper_bound = clamp,
                                      !.exp = @ + 1]
    /\ UNCHANGED <<bvars, svars, pvars>>

\* bisect_build, lines 453-479: one iteration of the loop; find_introducer
\* returns the bad end of the pair
BisectBuild ==
    /\ pt.op = "find_introducer"
    /\ pt.pc = "bisect_build"
    /\ \E midpoint \in next_bisection_commit(pt.good, pt.bad) :
          LET old_midpoint == pt.midpoint
          IN  pt' =
                IF midpoint = NoCommit \/ midpoint = old_midpoint
                THEN Ended(pt.bad, "none")
                ELSE IF Builds(midpoint) <=> ~pt.failure_is_good
                THEN [pt EXCEPT !.midpoint = midpoint, !.good = midpoint]
                ELSE [pt EXCEPT !.midpoint = midpoint, !.bad = midpoint]
    /\ UNCHANGED <<bvars, svars, pvars>>

PatcherInit == pt = NoPatcher

\* a history with a single boundary and a broken revision at or after it
NextIntroducer ==
    \/ /\ pt = NoPatcher
       /\ \E n \in 1..MaxHistory :
             \E boundary \in History(n), oldest_possible_commit \in History(n) :
                \E broken_rev \in boundary..(n - 1) :
                   FindIntroducer(n, boundary, oldest_possible_commit, broken_rev)
    \/ Search
    \/ BisectBuild

(***************************************************************************)
(* Patcher._check_building_patches and Patcher._bisection                  *)
(***************************************************************************)
\* _bisection(..., max_double_fail: int = 2)
max_double_fail == 2

\* the locals of _bisection, find_ranges and the functions they call
PatcherLocals ==
    [op |-> "none", pc |-> "idle", n |-> 0, first_needing |-> 0, first_fixed |-> 0,
     dead |-> FALSE, broken |-> {}, releases |-> {}, project |-> "LLVM",
     needed |-> {<<"a">>}, rev |-> NoCommit, result |-> "none", builds |-> 0,
     needing |-> {}, checks |-> 0,
     patches |-> <<Path("elsewhere", <<"a">>)>>, patchable_commit |-> NoCommit,
     cached |-> {}, good |-> NoCommit, bad |-> NoCommit, midpoint |-> NoCommit,
     double_fail_counter |-> 0, encountered_double_fail |-> FALSE,
     failure_is_good |-> FALSE, cont |-> "done",
     versions |-> << >>, k |-> 1, tested |-> {},
     no_patch_common_ancestor |-> NoCommit, oldest_patchable_ancestor |-> NoCommit,
     introducer |-> NoCommit, reachable_releases |-> << >>,
     last_needing_patch_list |-> {}, ret |-> NoCommit, raised |-> "none"]

\* the build of a commit to which not all the needed patches are applied:
\* the commits from first_needing up to first_fixed fail, and every commit
\* fails if the history is dead
BuildsUnpatched(c) ==
    /\ ~pt.dead
    /\ c \notin pt.broken
    /\ c < pt.first_needing \/ c >= pt.first_fixed

\* the build of a commit with the needed patches applied: the broken commits fail
BuildsPatched(c) == ~pt.dead /\ c \notin pt.broken

\* patch_if_necessary: the basenames of the patches applied to a commit, the
\* ones the database requires and the additional ones
AppliedPatches(c, additional_patches) ==
    {basename(patch) : patch \in required_patches(data[Owner], c)} \cup
    {basename(additional_patches[i]) : i \in 1..Len(additional_patches)}

\* Builder.build without force: an install prefix that holds DONE is returned
\* whatever patches are asked for, otherwise the commit is built
BuilderBuild(c, additional_patches) ==
    \/ c \in pt.cached
    \/ IF pt.needed \subseteq AppliedPatches(c, additional_patches)
       THEN BuildsPatched(c)
       ELSE BuildsUnpatched(c)

\* a check of the database that is content with one recorded patch
requires_any_of_these_patches(d, c, patches) ==
    \E i \in 1..Len(patches) :
        /\ basename(patches[i]) \in DOMAIN d.patches
        /\ c \in d.patches[basename(patches[i])]

\* PatchDB.requires_all_these_patches
requires_all_these_patches(d, c, patches) ==
    \A i \in 1..Len(patches) :
        /\ basename(patches[i]) \in DOMAIN d.patches
        /\ c \in d.patches[basename(patches[i])]

\* _check_building_patches: the PatchingResult, the exception raised, the
\* number of calls of self._build, the builds that are cached and
\* self.patchdb.data afterwards.  The call
\* manual_intervention_required(project, rev) passes a CompilerProject, which
\* has no attribute compiler
check_building_patches(rev, patches) ==
    LET d == data[Owner]
    IN  IF requires_all_these_patches(d, rev, patches)
        THEN [result |-> "BuildsWithPatching", raised |-> "none", builds |-> 0,
              cached |-> pt.cached, data |-> d]
        ELSE IF BuilderBuild(rev, << >>)
        THEN [result |-> "BuildsWithoutPatching", raised |-> "none", builds |-> 1,
              cached |-> pt.cached \cup {rev}, data |-> d]
        ELSE IF BuilderBuild(rev, patches)
        THEN [result |-> "BuildsWithPatching", raised |-> "none", builds |-> 2,
              cached |-> pt.cached \cup {rev}, data |-> d]
        ELSE IF pt.project \in CompilerProject
        THEN [result |-> "none", raised |-> "AttributeError", builds |-> 2,
              cached |-> pt.cached, data |-> d]
        ELSE [result |-> "BuildFailed", raised |-> "none", builds |-> 2,
              cached |-> pt.cached,
              data |-> manual_intervention_required(d, pt.project.compiler, rev)]

\* _adjust_bisection_midpoint_after_failure: the new midpoint and the
\* exception raised
adjust_bisection_midpoint_after_failure(double_fail_counter, bad, midpoint, good) ==
    IF double_fail_counter >= max_double_fail
    THEN [midpoint |-> NoCommit, raised |-> "Exception"]
    ELSE LET range_size == IF double_fail_counter % 2 = 0
                           THEN Len(direct_first_parent_path(midpoint, bad))
                           ELSE Len(direct_first_parent_path(good, midpoint))
             scaled == IF double_fail_counter % 2 = 0
                       THEN (9 * range_size) \div 10
                       ELSE (2 * range_size) \div 10
             step == IF scaled > 1 THEN scaled ELSE 1
             moved == IF double_fail_counter % 2 = 0
                      THEN Ancestor(bad, step)
                      ELSE Ancestor(midpoint, step)
         IN  IF moved = NoCommit
             THEN [midpoint |-> NoCommit, raised |-> "RepositoryException"]
             ELSE [midpoint |-> moved, raised |-> "none"]

\* _bisection(good_rev, bad_rev, project, repo, patches, failure_is_good)
Bisection(n, first_needing, first_fixed, dead, broken, good_rev, bad_rev, failure_is_good) ==
    /\ pt = NoPatcher
    /\ pt' = [PatcherLocals EXCEPT !.op = "_bisection", !.pc = "bisection", !.n = n,
                 !.first_needing = first_needing, !.first_fixed = first_fixed,
                 !.dead = dead, !.broken = broken, !.good = good_rev, !.bad = bad_rev,
                 !.failure_is_good = failure_is_good]
    /\ UNCHANGED <<bvars, svars, pvars>>

\* the statement after the call of _bisection
Continue(p) ==
    IF p.cont = "introducer"
    THEN [p EXCEPT !.pc = "save_range", !.introducer = p.bad]
    ELSE IF p.cont = "fixer"
    THEN [p EXCEPT !.pc = "save_fixer"]
    ELSE [p EXCEPT !.pc = "done"]

\* a bisection that moves the bracket without regard to failure_is_good
MoveBracketOneWay(p, midpoint, patching_result) ==
    IF patching_result = "BuildFailed"
    THEN [p EXCEPT !.encountered_double_fail = TRUE]
    ELSE IF patching_result = "BuildsWithoutPatching"
    THEN [p EXCEPT !.good = midpoint]
    ELSE [p EXCEPT !.bad = midpoint]

\* _bisection, lines 175-182: the bracket after the midpoint was classified
MoveBracket(p, midpoint, patching_result) ==
    IF patching_result = "BuildFailed"
    THEN [p EXCEPT !.encountered_double_fail = TRUE]
    ELSE IF (patching_result = "BuildsWithoutPatching") # p.failure_is_good
    THEN [p EXCEPT !.good = midpoint]
    ELSE [p EXCEPT !.bad = midpoint]

\* _bisection: one iteration of the loop
BisectionStep ==
    /\ pt.pc = "bisection"
    /\ \E candidate \in next_bisection_commit(pt.good, pt.bad) :
          LET adjusted == adjust_bisection_midpoint_after_failure(
                              pt.double_fail_counter, pt.bad, pt.midpoint, pt.good)
              midpoint == IF pt.encountered_double_fail THEN adjusted.midpoint
                          ELSE candidate
              p == IF pt.encountered_double_fail
                   THEN [pt EXCEPT !.midpoint = midpoint, !.double_fail_counter = @ + 1,
                                   !.encountered_double_fail = FALSE]
                   ELSE [pt EXCEPT !.midpoint = midpoint]
              checked == check_building_patches(midpoint, pt.patches)
          IN  IF pt.encountered_double_fail /\ adjusted.raised # "none"
              THEN /\ pt' = Ended(NoCommit, adjusted.raised)
                   /\ UNCHANGED pvars
              ELSE IF ~pt.encountered_double_fail
                      /\ (midpoint = NoCommit \/ midpoint = pt.midpoint)
              THEN /\ pt' = Continue(pt)
                   /\ UNCHANGED pvars
              ELSE IF checked.raised # "none"
              THEN /\ pt' = [p EXCEPT !.pc = "done", !.raised = checked.raised]
                   /\ UNCHANGED pvars
              ELSE /\ pt' = [MoveBracket(p, midpoint, checked.result)
                                EXCEPT !.cached = checked.cached]
                   /\ IF checked.data = data[Owner]
                      THEN UNCHANGED pvars
                      ELSE SaveDb(Owner, checked.data) /\ UNCHANGED saved
    /\ UNCHANGED <<bvars, svars>>

\* _adjust_bisection_midpoint_after_failure(project, repo, double_fail_counter,
\* max_double_fail, bad, midpoint, good) for a midpoint of the bracket
Adjust(double_fail_counter, bad, midpoint, good) ==
    LET adjusted == adjust_bisection_midpoint_after_failure(double_fail_counter, bad,
                                                            midpoint, good)
    IN  /\ pt = NoPatcher
        /\ pt' = [PatcherLocals EXCEPT
                     !.op = "_adjust_bisection_midpoint_after_failure", !.pc = "done",
                     !.n = MaxHistory, !.double_fail_counter = double_fail_counter,
                     !.bad = bad, !.midpoint = midpoint, !.good = good,
                     !.ret = adjusted.midpoint, !.raised = adjusted.raised]
        /\ UNCHANGED <<bvars, svars, pvars>>

\* the midpoints of the brackets of a history and the double failures counted
NextAdjust ==
    /\ pt = NoPatcher
    /\ \E good \in History(MaxHistory), bad \in History(MaxHistory) :
          \E midpoint \in (good + 1)..bad, double_fail_counter \in 0..max_double_fail :
             Adjust(double_fail_counter, bad, midpoint, good)

\* the sets of at most two commits that build neither without nor with the
\* patches
BrokenSets(n) == {broken \in SUBSET History(n) : Cardinality(broken) <= 2}

\* a bisection of a range of a history that needs the patches from
\* first_needing up to first_fixed, or of a history that does not build at all
NextBisection ==
    \/ /\ pt = NoPatcher
       /\ \E n \in 1..MaxRangeHistory :
             \E first_needing \in 0..n, first_fixed \in 0..n, dead \in BOOLEAN :
                \E good_rev \in History(n), bad_rev \in History(n) :
                   /\ first_needing <= first_fixed
                   /\ good_rev < bad_rev
                   /\ \E failure_is_good \in BOOLEAN, broken \in BrokenSets(n) :
                         /\ dead => broken = {}
                         /\ Bisection(n, first_needing, first_fixed, dead, broken,
                                      good_rev, bad_rev, failure_is_good)
    \/ BisectionStep

(***************************************************************************)
(* Patcher.find_ranges and Patcher.find_fixer_from_introducer_to_releases  *)
(***************************************************************************)
\* the commits of a set as a list, youngest first
RECURSIVE Descending(_)
Descending(commits) ==
    IF commits = {} THEN << >>
    ELSE LET youngest == CHOOSE c \in commits : \A other \in commits : c >= other
         IN  <<youngest>> \o Descending(commits \ {youngest})

\* the commits of a set as a list, oldest first
RECURSIVE Ascending(_)
Ascending(commits) ==
    IF commits = {} THEN << >>
    ELSE LET oldest == CHOOSE c \in commits : \A other \in commits : c <= other
         IN  <<oldest>> \o Ascending(commits \ {oldest})

\* git log and git rev-list of a linear history: the commits from older up to
\* younger, the youngest first
CommitRange(older, younger) ==
    [i \in 1..(IF younger >= older THEN younger - older + 1 ELSE 0) |-> younger + 1 - i]

\* Repo.get_best_common_ancestor on a linear history
get_best_common_ancestor(rev_a, rev_b) == IF rev_a <= rev_b THEN rev_a ELSE rev_b

\* Repo.is_branch_point_ancestor_wrt_master, master being the head pt.n - 1
is_branch_point_ancestor_wrt_master(rev_old, rev_young) ==
    is_ancestor(get_best_common_ancestor(pt.n - 1, rev_old),
                get_best_common_ancestor(pt.n - 1, rev_young))

\* Repo.rev_to_range_needing_patch on a history without merges
rev_to_range_needing_patch(introducer, fixer) ==
    CommitRange(introducer + 1, fixer) \o <<introducer>>

\* the parameters of PatchDB.save after self
SaveParameters == <<"patch", "commits">>

\* for patch in patches: self.patchdb.save(*args), the patch being the first
\* of the arguments: the data afterwards and the exception raised
RECURSIVE save_all(_, _, _)
save_all(d, patches, args) ==
    IF patches = << >> THEN [data |-> d, raised |-> "none"]
    ELSE IF Len(args) + 1 # Len(SaveParameters)
    THEN [data |-> d, raised |-> "TypeError"]
    ELSE save_all(save(d, Head(patches), args[1]), Tail(patches), args)

\* the loop of saves, followed by the state p of the patcher
PatcherSave(args, p) ==
    LET result == save_all(data[Owner], pt.patches, args)
    IN  IF result.raised # "none"
        THEN /\ pt' = Ended(NoCommit, result.raised)
             /\ UNCHANGED pvars
        ELSE /\ pt' = p
             /\ SaveDb(Owner, result.data)
             /\ saved' = [saved EXCEPT ![Owner] = @ \cup
                             {<<pt.patches[i], c>> : i \in 1..Len(pt.patches),
                                                     c \in ToSet(args[1])}]

\* find_ranges(project, repo, patchable_commit, patches) on a history of n
\* commits with the given release commits
FindRanges(n, first_needing, first_fixed, releases, patchable_commit) ==
    /\ pt = NoPatcher
    /\ pt' = [PatcherLocals EXCEPT !.op = "find_ranges", !.pc = "ancestors", !.n = n,
                 !.first_needing = first_needing, !.first_fixed = first_fixed,
                 !.releases = releases, !.patchable_commit = patchable_commit,
                 !.versions = Ascending(releases) \o <<n - 1>>]
    /\ UNCHANGED <<bvars, svars, pvars>>

\* find_fixer_from_introducer_to_releases: the reachable releases
Fixer(p, introducer) ==
    [p EXCEPT !.pc = "fixer", !.introducer = introducer,
              !.reachable_releases =
                  Reversed(Ascending({r \in p.releases : is_ancestor(introducer, r)})),
              !.k = 1, !.last_needing_patch_list = {}]

\* find_ranges: what follows the search of the ancestors
Branch(p) ==
    IF p.no_patch_common_ancestor # NoCommit
    THEN [p EXCEPT !.pc = "bisection", !.good = p.no_patch_common_ancestor,
                   !.bad = p.patchable_commit, !.midpoint = NoCommit,
                   !.double_fail_counter = 0, !.encountered_double_fail = FALSE,
                   !.failure_is_good = FALSE, !.cont = "introducer"]
    ELSE IF p.oldest_patchable_ancestor # NoCommit
    THEN Fixer(p, p.oldest_patchable_ancestor)
    ELSE [p EXCEPT !.pc = "done"]

\* _find_oldest_ancestor_not_needing_patches_and_oldest_patchable_from_releases:
\* one iteration of the loop over the releases and trunk
AncestorStep ==
    /\ pt.pc = "ancestors"
    /\ IF pt.k > Len(pt.versions)
       THEN pt' = Branch(pt) /\ UNCHANGED pvars
       ELSE LET old_version == pt.versions[pt.k]
                common_ancestor == get_best_common_ancestor(old_version,
                                                            pt.patchable_commit)
                checked == check_building_patches(common_ancestor, pt.patches)
            IN  IF ~is_branch_point_ancestor_wrt_master(old_version, pt.patchable_commit)
                THEN /\ pt' = IF pt.oldest_patchable_ancestor # NoCommit
                              THEN Branch(pt)
                              ELSE Ended(NoCommit, "Exception")
                     /\ UNCHANGED pvars
                ELSE IF common_ancestor \in pt.tested
                THEN pt' = [pt EXCEPT !.k = @ + 1] /\ UNCHANGED pvars
                ELSE IF checked.raised # "none"
                THEN pt' = Ended(NoCommit, checked.raised) /\ UNCHANGED pvars
                ELSE /\ pt' = IF checked.result = "BuildsWithoutPatching"
                              THEN Branch([pt EXCEPT
                                              !.no_patch_common_ancestor = common_ancestor,
                                              !.cached = checked.cached])
                              ELSE IF checked.result = "BuildsWithPatching"
                              THEN [pt EXCEPT !.oldest_patchable_ancestor =
                                                  IF @ = NoCommit THEN common_ancestor
                                                  ELSE @,
                                              !.cached = checked.cached, !.k = @ + 1]
                              ELSE [pt EXCEPT !.tested = @ \cup {common_ancestor},
                                              !.cached = checked.cached, !.k = @ + 1]
                     /\ IF checked.data = data[Owner]
                        THEN UNCHANGED pvars
                        ELSE SaveDb(Owner, checked.data) /\ UNCHANGED saved
    /\ UNCHANGED <<bvars, svars>>

\* find_ranges: the range from the introducer to
\* patchable_commit is saved, then the fixers are searched
SaveRange ==
    /\ pt.pc = "save_range"
    /\ IF Ancestor(pt.introducer, 1) = NoCommit
       THEN pt' = Ended(NoCommit, "RepositoryException") /\ UNCHANGED pvars
       ELSE PatcherSave(<<CommitRange(pt.introducer, pt.patchable_commit), "repo">>,
                        Fixer(pt, pt.introducer))
    /\ UNCHANGED <<bvars, svars>>

\* find_fixer_from_introducer_to_releases: one iteration of the loop over the
\* reachable releases
FixerStep ==
    /\ pt.pc = "fixer"
    /\ IF pt.k > Len(pt.reachable_releases)
       THEN pt' = [pt EXCEPT !.pc = "done"] /\ UNCHANGED pvars
       ELSE LET release == pt.reachable_releases[pt.k]
                checked == check_building_patches(release, pt.patches)
                p == [pt EXCEPT !.cached = checked.cached]
                known_fixer == /\ pt.last_needing_patch_list # {}
                               /\ \E fixer \in pt.last_needing_patch_list :
                                     is_ancestor(fixer, release)
            IN  IF checked.raised # "none"
                THEN pt' = Ended(NoCommit, checked.raised) /\ UNCHANGED pvars
                ELSE IF known_fixer \/ checked.result = "BuildFailed"
                THEN /\ pt' = [p EXCEPT !.k = @ + 1]
                     /\ IF checked.data = data[Owner]
                        THEN UNCHANGED pvars
                        ELSE SaveDb(Owner, checked.data) /\ UNCHANGED saved
                ELSE IF checked.result = "BuildsWithPatching"
                THEN IF Ancestor(pt.introducer, 1) = NoCommit
                     THEN pt' = Ended(NoCommit, "RepositoryException") /\ UNCHANGED pvars
                     ELSE PatcherSave(<<CommitRange(pt.introducer, release), "repo">>,
                                      [p EXCEPT !.k = @ + 1])
                ELSE /\ pt' = [p EXCEPT !.pc = "bisection", !.good = pt.introducer,
                                        !.bad = release, !.midpoint = NoCommit,
                                        !.double_fail_counter = 0,
                                        !.encountered_double_fail = FALSE,
                                        !.failure_is_good = TRUE, !.cont = "fixer"]
                     /\ UNCHANGED pvars
    /\ UNCHANGED <<bvars, svars>>

\* find_fixer_from_introducer_to_releases: the range up to the
\* last commit that needs the patches is saved
SaveFixer ==
    /\ pt.pc = "save_fixer"
    /\ LET last_needing_patch == pt.good
       IN  IF Ancestor(pt.introducer, 1) = NoCommit
           THEN pt' = Ended(NoCommit, "RepositoryException") /\ UNCHANGED pvars
           ELSE PatcherSave(<<rev_to_range_needing_patch(pt.introducer,
                                                         last_needing_patch), "repo">>,
                            [pt EXCEPT !.pc = "fixer", !.k = @ + 1,
                                       !.last_needing_patch_list =
                                           @ \cup {last_needing_patch}])
    /\ UNCHANGED <<bvars, svars>>

\* the sets of at most three release commits of a history
ReleaseSets(n) == {releases \in SUBSET History(n) : Cardinality(releases) \in 1..3}

\* find_ranges on a history that needs the patches from first_needing up to
\* first_fixed, called with a commit that needs them
NextRanges ==
    \/ /\ pt = NoPatcher
       /\ \E n \in 1..MaxRangeHistory :
             \E first_needing \in History(n), first_fixed \in 1..n :
                \E patchable_commit \in first_needing..(first_fixed - 1) :
                   \E releases \in ReleaseSets(n) :
                      FindRanges(n, first_needing, first_fixed, releases,
                                 patchable_commit)
    \/ AncestorStep
    \/ BisectionStep
    \/ SaveRange
    \/ FixerStep
    \/ SaveFixer

(***************************************************************************)
(* Patcher._check_building_patches called on a patch database that has     *)
(* been filled                                                             *)
(***************************************************************************)
\* the calls of _check_building_patches that are followed
MaxChecks == 2

\* the lists of patches _check_building_patches is called with
PatchLists ==
    {<< >>, <<Path("elsewhere", <<"a">>)>>,
     <<Path(patch_path_prefix, <<"a">>), Path(patch_path_prefix, <<"b">>)>>}

\* a Patcher on a history whose commits from first_needing up to
\* first_fixed build only with the needed patches
NewPatcher(first_needing, first_fixed, broken, needed) ==
    /\ pt = NoPatcher
    /\ Ready
    /\ pt' = [PatcherLocals EXCEPT !.op = "_check_building_patches",
                 !.n = NumPatchCommits + 1, !.first_needing = first_needing,
                 !.first_fixed = first_fixed, !.broken = broken, !.needed = needed]
    /\ UNCHANGED <<bvars, svars, pvars>>

\* one call of _check_building_patches(project, repo, rev, patches)
CheckBuildingPatches(rev, patches) ==
    /\ pt.op = "_check_building_patches"
    /\ pt.checks < MaxChecks
    /\ LET checked == check_building_patches(rev, patches)
       IN  /\ pt' = [pt EXCEPT !.rev = rev, !.patches = patches, !.checks = @ + 1,
                                !.result = checked.result, !.raised = checked.raised,
                                !.builds = checked.builds, !.cached = checked.cached,
                                !.needing = IF checked.result = "BuildsWithPatching"
                                               /\ checked.builds > 0
                                            THEN @ \cup {<<rev, patches>>}
                                            ELSE @]
           /\ IF checked.data = data[Owner]
              THEN UNCHANGED pvars
              ELSE SaveDb(Owner, checked.data) /\ UNCHANGED saved
    /\ UNCHANGED <<bvars, svars>>

NextClassify ==
    \/ \E first_needing \in 0..(NumPatchCommits + 1) :
          \E first_fixed \in first_needing..(NumPatchCommits + 1) :
             \E broken \in {{}} \cup {{c} : c \in PatchCommits} :
                \E needed \in (SUBSET PatchNames) \ {{}} :
                   NewPatcher(first_needing, first_fixed, broken, needed)
    \/ \E rev \in PatchCommits, patches \in PatchLists : CheckBuildingPatches(rev, patches)
    \/ /\ pt = NoPatcher
       /\ \E patch \in OwnPatches, c \in PatchCommits : Save(Owner, patch, <<c>>)
    \/ Return

(***************************************************************************)
(* Specifications of the build coordinator                                 *)
(***************************************************************************)
\* one step of the call of w that is in progress
Step(w) ==
    \/ CheckDone(w)
    \/ CheckPath(w)
    \/ WorkerAliveExists(w)
    \/ WorkerAliveRead(w)
    \/ LoopDone(w)
    \/ LoopPath(w)
    \/ PostDone(w)
    \/ Makedirs(w)
    \/ OpenPid(w)
    \/ WritePid(w)
    \/ Worktree(w)
    \/ Patch(w)
    \/ Recipe(w)
    \/ Touch(w)
    \/ ExitRemove(w)
    \/ ExitCheck(w)
    \/ ExitRmtree(w)

\* concurrent workers ask for the same compiler
BeginSame(w) == \E f \in BOOLEAN : Begin(w, "LLVM", FALSE, f)

Next == \E w \in Workers : BeginSame(w) \/ Step(w)

BuilderInit ==
    /\ pc = [w \in Workers |-> "idle"]
    /\ call = [w \in Workers |-> NoCall]
    /\ fs = [p \in CompilerProject |-> NoFile]
    /\ fd = [w \in Workers |-> FALSE]
    /\ exc = [w \in Workers |-> "none"]
    /\ ncalls = 0
    /\ returned = [a \in Arguments |-> NoResult]
    /\ failed = {}
    /\ seen = {}
    /\ invocations = 0

Init == BuilderInit /\ StoreInit /\ PatchInit /\ PatcherInit

Spec == Init /\ [][Next]_vars

\* concurrent workers ask for the same compiler, and a worker may be killed
NextCrash == \E w \in Workers : BeginSame(w) \/ Step(w) \/ Crash(w)

SpecCrash == Init /\ [][NextCrash]_vars

SpecStore == Init /\ [][NextStore]_vars

SpecClosest == Init /\ [][NextClosest]_vars

SpecShift == Init /\ [][NextShift]_vars

SpecPatchDB == Init /\ [][NextPatchDB]_vars

SpecPatchFile == Init /\ [][NextPatchFile]_vars

SpecIntroducer == Init /\ [][NextIntroducer]_vars

SpecBisection == Init /\ [][NextBisection]_vars

SpecAdjust == Init /\ [][NextAdjust]_vars

\* a call of _bisection, of find_introducer, which calls bisect_build, or of
\* _adjust_bisection_midpoint_after_failure
NextBrackets == NextBisection \/ NextIntroducer \/ NextAdjust

SpecBrackets == Init /\ [][NextBrackets]_vars

SpecRanges == Init /\ [][NextRanges]_vars

SpecClassify == Init /\ [][NextClassify]_vars

\* the process that makes one call after the other
Caller == CHOOSE w \in Workers : TRUE

\* a call begins when no other call is in progress
BeginSeq(w) ==
    /\ \A v \in Workers : pc[v] = "idle"
    /\ \E p \in CompilerProject, ge \in BOOLEAN, f \in BOOLEAN : Begin(w, p, ge, f)

NextSeq ==
    \/ BeginSeq(Caller)
    \/ CheckDone(Caller)
    \/ CheckPath(Caller)
    \/ Makedirs(Caller)
    \/ OpenPid(Caller)
    \/ WritePid(Caller)
    \/ Worktree(Caller)
    \/ Patch(Caller)
    \/ Recipe(Caller)
    \/ Touch(Caller)
    \/ ExitRemove(Caller)
    \/ ExitCheck(Caller)
    \/ ExitRmtree(Caller)

SpecSeq == Init /\ [][NextSeq]_vars

(***************************************************************************)
(* Properties of the build coordinator                                     *)
(***************************************************************************)
\* positions between BuildContext.__enter__ and the end of __exit__
BuildSection == {"makedirs", "open_pid", "write_pid", "worktree", "patch", "recipe",
                 "touch", "exit_remove", "exit_check", "exit_rmtree"}

AllIdle == \A w \in Workers : pc[w] = "idle"

\* C1: when workers concurrently call build without force for the same commit
\* and no build step fails, the build recipe is invoked at most once, and
\* exactly once when all their calls have ended.
AtMostOnceBuild ==
    seen = {} =>
        /\ invocations <= 1
        /\ (AllIdle /\ ncalls > 0) => invocations = 1

\* C2: concurrent callers without force observe the same outcome: each call
\* ends with the install path or with BuildException, never with another
\* error; while no build step has failed every call returns the path, and
\* all returned paths are equal.
OutcomeAgreement ==
    "force" \notin seen =>
        \A w \in Workers :
            call[w].res # NoResult =>
                /\ call[w].res.kind = "return" \/ call[w].res = Raise("BuildException")
                /\ "failure" \notin seen => call[w].res.kind = "return"
                /\ \A v \in Workers :
                      (call[w].res.kind = "return" /\ call[v].res.kind = "return")
                          => call[w].res = call[v].res

\* C3: a call without force whose arguments an earlier call returned
\* successfully with never enters the build section, invokes no recipe and
\* returns the path the earlier call returned.
IdempotentBuild ==
    \A w \in Workers :
        (call[w].first.kind = "return" /\ ~call[w].force) =>
            /\ pc[w] \notin BuildSection
            /\ call[w].ran = 0
            /\ call[w].res # NoResult => call[w].res = call[w].first

\* C3 witness: a second call with get_executable set has returned the path of the first
IdempotentBuildWitness ==
    \E w \in Workers :
        /\ pc[w] = "idle"
        /\ ~call[w].force
        /\ call[w].get_executable
        /\ call[w].first.kind = "return"
        /\ call[w].res = call[w].first
        /\ invocations = 1

\* C4: a call without force that begins after a build of its commit failed
\* invokes no recipe and fails with BuildException.
FailureMemoized ==
    \A w \in Workers :
        (call[w].after_failure /\ ~call[w].force) =>
            /\ pc[w] \notin BuildSection
            /\ call[w].ran = 0
            /\ call[w].res # NoResult => call[w].res = Raise("BuildException")

\* positions inside the with block of build_and_install_compiler and inside
\* BuildContext.__exit__: the WORKER_PID record of the worker has been written
LockedSection == {"worktree", "patch", "recipe", "touch",
                  "exit_remove", "exit_check", "exit_rmtree"}

\* C21: whenever a worker leaves the locked section of build, by a return or
\* by an exception, no WORKER_PID record with its pid exists for the install
\* path and the temporary build directory of its BuildContext is removed.
LockAndBuildDirReleased ==
    [][\A w \in Workers :
          (pc[w] \in LockedSection /\ pc'[w] = "idle") =>
              /\ fs'[call[w].project].pid # w
              /\ ~call'[w].build_dir]_vars

\* C21 witness: a worker has left the locked section with the BuildException
\* of a failed recipe while another worker is inside it
LockAndBuildDirReleasedWitness ==
    \E w \in Workers :
        /\ pc[w] = "idle"
        /\ call[w].res = Raise("BuildException")
        /\ call[w].ran = 1
        /\ ~call[w].build_dir
        /\ fs[call[w].project].pid # w
        /\ \E v \in Workers : pc[v] \in LockedSection

\* C22: after a call of build, forced or not, that ended with the
\* BuildException of a failed patch application or a failed recipe, the
\* install path of its project and commit does not exist, so it holds no
\* DONE marker.
FailedBuildLeavesNoInstallPath ==
    (pc[Caller] = "idle" /\ call[Caller].res = Raise("BuildException")) =>
        /\ ~fs[call[Caller].project].dir
        /\ ~fs[call[Caller].project].DONE

\* C23: a call without force that found no DONE marker and an existing
\* install path, and then finds no live holder of WORKER_PID, ends with an
\* error and starts no build in that install path.
InconsistencySurfaced ==
    [][\A w \in Workers :
          (/\ pc[w] \in {"elif_exists", "elif_read"}
           /\ pc'[w] \notin {"elif_exists", "elif_read", "loop_done"}) =>
              /\ pc'[w] = "idle"
              /\ call'[w].res.kind = "raise"]_vars

\* positions of the waiting loop of Builder.build and of the statements after it
WaitSection == {"loop_done", "loop_path", "loop_exists", "loop_read", "post_done"}

\* C24: a caller that found a live holder stays in the waiting loop and
\* starts no build; it leaves the loop by returning the install path when the
\* DONE marker exists and by raising BuildException otherwise.
WaiterProtocol ==
    [][\A w \in Workers :
          pc[w] \in WaitSection =>
              /\ pc'[w] \in WaitSection \cup {"idle"}
              /\ call'[w].ran = 0
              /\ pc'[w] = "idle" =>
                    call'[w].res = IF fs[call[w].project].DONE
                                   THEN CachedReturn(call[w].project,
                                                     call[w].get_executable)
                                   ELSE Raise("BuildException")]_vars

\* C25: a call with force goes through build_and_install_compiler whatever
\* the install path holds: it is never at a position of the cache lookup or
\* of the waiting loop, and when it returns it has run the recipe once and
\* returns the path a call without force returns from the cache.
ForceRebuilds ==
    \A w \in Workers :
        call[w].force =>
            /\ pc[w] \in BuildSection \cup {"idle"}
            /\ call[w].res.kind = "return" =>
                  /\ call[w].ran = 1
                  /\ call[w].res = CachedReturn(call[w].project, call[w].get_executable)

\* C25 witness: a forced call for the executable has rebuilt a compiler that
\* an earlier call with the same arguments had returned
ForceRebuildsWitness ==
    \E w \in Workers :
        /\ pc[w] = "idle"
        /\ call[w].force
        /\ call[w].get_executable
        /\ call[w].first.kind = "return"
        /\ call[w].res.kind = "return"
        /\ call[w].ran = 1

\* C26: every failure of a tool during build reaches the caller as
\* BuildException.
FailureWrapped ==
    \A w \in Workers :
        call[w].res.kind = "raise" => call[w].res = Raise("BuildException")

(***************************************************************************)
(* Properties of the CompilerStore                                         *)
(***************************************************************************)
\* the rows of a table stored for the key (project, c)
RowsOf(tbl, project, c) == {r \in tbl : r.project = project /\ r.commit_ = c}

\* the rows of a table stored for every other key
RowsOfOthers(tbl, project, c) == {r \in tbl : ~(r.project = project /\ r.commit_ = c)}

\* C5: after any sequence of store operations no (project, commit) pair is
\* both in the built relation and in the failed relation.
BuiltFailedExclusive ==
    \A r \in compilers :
        ~has_previously_failed_to_build(failed_compiler_builts, r.project, r.commit_)

\* C6: after add_compiler(info) returns, has_previously_failed_to_build is
\* false for the key of info, whether or not an equal entry was already
\* stored, and the failed records of all other keys are as before the call.
AddCompilerClearsFailure ==
    (last.op = "add_compiler" /\ last.raised = "none") =>
        /\ ~has_previously_failed_to_build(failed_compiler_builts,
                                           last.info.project, last.info.commit)
        /\ RowsOfOthers(failed_compiler_builts, last.info.project, last.info.commit)
             = RowsOfOthers(last.failed, last.info.project, last.info.commit)

\* add_compiler returned for a key that was both built (an equal entry) and
\* failed, while another key keeps its failure record
AddCompilerClearsFailureWitness ==
    /\ last.op = "add_compiler"
    /\ last.raised = "none"
    /\ Row(last.info.project, last.info.commit, last.info.prefix) \in last.compilers
    /\ last.info.prefix \in markers
    /\ has_previously_failed_to_build(last.failed, last.info.project, last.info.commit)
    /\ RowsOfOthers(failed_compiler_builts, last.info.project, last.info.commit) # {}

\* the built relation holds at most one entry for a key
UniquePerKey ==
    \A r1 \in compilers, r2 \in compilers :
        (r1.project = r2.project /\ r1.commit_ = r2.commit_) => r1 = r2

\* C7 as stated: adding an entry equal to the stored one leaves the built
\* relation unchanged; adding an entry with a different prefix for an
\* already-stored key raises an assertion and leaves the built relation
\* unchanged; the built relation never holds two entries for one key.
AddCompilerKeyConsistent ==
    /\ UniquePerKey
    /\ last.op = "add_compiler" =>
         LET new == Row(last.info.project, last.info.commit, last.info.prefix)
         IN  \A r \in RowsOf(last.compilers, last.info.project, last.info.commit) :
                 /\ r = new => (last.raised = "none" /\ compilers = last.compilers)
                 /\ r # new => (last.raised = "AssertionError" /\ compilers = last.compilers)

\* C7 amended: adding an entry equal to the stored one leaves the built
\* relation unchanged; adding an entry with a different prefix for a stored
\* key raises an assertion and leaves the built relation unchanged if the
\* stored prefix holds the DONE marker, and replaces the stored entry without
\* an error if it does not; the built relation never holds two entries for
\* one key.
AddCompilerKeyConsistentUnlessStale ==
    /\ UniquePerKey
    /\ last.op = "add_compiler" =>
         LET new == Row(last.info.project, last.info.commit, last.info.prefix)
         IN  \A r \in RowsOf(last.compilers, last.info.project, last.info.commit) :
                 /\ r = new => (last.raised = "none" /\ compilers = last.compilers)
                 /\ (r # new /\ r.prefix \in markers) =>
                        (last.raised = "AssertionError" /\ compilers = last.compilers)
                 /\ (r # new /\ r.prefix \notin markers) =>
                        /\ last.raised = "none"
                        /\ compilers = (last.compilers \ {r}) \cup {new}

\* add_compiler was called with a different prefix for a key whose stored
\* prefix holds the DONE marker
AddCompilerKeyConsistentWitness ==
    /\ last.op = "add_compiler"
    /\ last.raised = "AssertionError"
    /\ \E r \in RowsOf(compilers, last.info.project, last.info.commit) :
           r.prefix # last.info.prefix /\ r.prefix \in markers

\* C8: get_built_compiler returns an entry only if the entry's prefix holds
\* the DONE marker at the time of the call; if the recorded prefix lacks the
\* marker the entry is removed and absent is returned; the entries of all
\* other keys are left unchanged.
StaleEviction ==
    last.op = "get_built_compiler" =>
        LET rows == RowsOf(last.compilers, last.info.project, last.info.commit)
        IN  /\ last.ret # None =>
                 \E r \in rows :
                     /\ r.prefix \in markers
                     /\ last.ret = Some(BuiltCompilerInfo(r.project, r.prefix, r.commit_))
                     /\ compilers = last.compilers
            /\ (\E r \in rows : r.prefix \notin markers) =>
                 /\ last.ret = None
                 /\ RowsOf(compilers, last.info.project, last.info.commit) = {}
            /\ RowsOfOthers(compilers, last.info.project, last.info.commit)
                 = RowsOfOthers(last.compilers, last.info.project, last.info.commit)

\* get_built_compiler evicted a stale entry while another key of the same
\* project is stored
StaleEvictionWitness ==
    /\ last.op = "get_built_compiler"
    /\ last.ret = None
    /\ RowsOf(last.compilers, last.info.project, last.info.commit) # {}
    /\ RowsOf(compilers, last.info.project, last.info.commit) = {}
    /\ \E r \in RowsOfOthers(compilers, last.info.project, last.info.commit) :
           r.project = last.info.project

(***************************************************************************)
(* Properties of get_closest_built_compiler_in_range                       *)
(***************************************************************************)
\* the commits of a project that are built: stored with a prefix that holds DONE
BuiltCommits(tbl, mk, project) ==
    {r.commit_ : r \in {x \in tbl : x.project = project /\ x.prefix \in mk}}

\* the entry stored for a built commit
EntryOf(tbl, project, c) ==
    LET r == CHOOSE x \in tbl : x.project = project /\ x.commit_ = c
    IN  BuiltCompilerInfo(project, r.prefix, c)

\* the other built commits strictly between the bounds of the last query
BuiltBetween ==
    {c \in BuiltCommits(last.compilers, markers, last.info.project) :
        /\ last.lower_bound < c
        /\ c < last.upper_bound
        /\ c # last.info.commit}

\* the last call was a query for an unbuilt commit strictly between its bounds
UnbuiltQueryBetween ==
    /\ last.op = "get_closest_built_compiler_in_range"
    /\ last.raised = "none"
    /\ last.info.commit \notin BuiltCommits(last.compilers, markers, last.info.project)
    /\ last.lower_bound < last.info.commit
    /\ last.info.commit < last.upper_bound

\* C9: the query returns the query commit's own entry whenever that commit is
\* built; for an unbuilt query commit strictly between the bounds it returns
\* the single other built commit strictly between the bounds when exactly one
\* exists, and absent when none is built there.
ClosestBaseCases ==
    /\ (/\ last.op = "get_closest_built_compiler_in_range"
        /\ last.raised = "none"
        /\ last.info.commit \in BuiltCommits(last.compilers, markers, last.info.project))
       => last.ret = Some(EntryOf(last.compilers, last.info.project, last.info.commit))
    /\ (UnbuiltQueryBetween /\ Cardinality(BuiltBetween) = 1)
       => last.ret = {EntryOf(last.compilers, last.info.project, c) : c \in BuiltBetween}
    /\ (UnbuiltQueryBetween /\ BuiltBetween = {})
       => last.ret = None

\* C10: for an unbuilt query commit the result is the nearest newer built
\* commit strictly between the bounds whenever one exists, and the nearest
\* older one only if the query commit is the last of the filtered list.
ClosestNeighbourSelection ==
    UnbuiltQueryBetween =>
        LET newer == {c \in BuiltBetween : c > last.info.commit}
            older == {c \in BuiltBetween : c < last.info.commit}
        IN  /\ newer # {} =>
                 last.ret = Some(EntryOf(last.compilers, last.info.project,
                                         CHOOSE c \in newer : \A d \in newer : c <= d))
            /\ (newer = {} /\ older # {}) =>
                 last.ret = Some(EntryOf(last.compilers, last.info.project,
                                         CHOOSE c \in older : \A d \in older : c >= d))

\* the last call was a query for an unbuilt ancestor of upper_bound that is
\* not strictly between the bounds: an endpoint, or older than lower_bound
UnbuiltQueryOffPath ==
    /\ last.op = "get_closest_built_compiler_in_range"
    /\ last.info.commit \notin BuiltCommits(last.compilers, markers, last.info.project)
    /\ is_ancestor(last.info.commit, last.upper_bound)
    /\ ~(last.lower_bound < last.info.commit /\ last.info.commit < last.upper_bound)

\* C11: for an unbuilt query commit that is not in the filtered path the
\* query returns the nearest built commit strictly older than lower_bound if
\* there is one and otherwise absent, and it never fails for a query commit
\* that is an ancestor of upper_bound.
ClosestFallback ==
    UnbuiltQueryOffPath =>
        LET older == {c \in BuiltCommits(last.compilers, markers, last.info.project) :
                         c < last.lower_bound}
        IN  /\ last.raised = "none"
            /\ older # {} =>
                 last.ret = Some(EntryOf(last.compilers, last.info.project,
                                         CHOOSE c \in older : \A d \in older : c >= d))
            /\ older = {} => last.ret = None

\* the first-parent distance of two commits of the history
Distance(a, b) == IF a <= b THEN b - a ELSE a - b

\* C12: for an unbuilt query commit between the bounds the compiler returned
\* is a built commit whose first-parent distance to the query commit is
\* minimal among the built commits strictly between the bounds.
ClosestIsClosest ==
    (UnbuiltQueryBetween /\ last.ret # None) =>
        \E c \in BuiltBetween :
            /\ last.ret = Some(EntryOf(last.compilers, last.info.project, c))
            /\ \A d \in BuiltBetween :
                   Distance(c, last.info.commit) <= Distance(d, last.info.commit)

(***************************************************************************)
(* Properties of the PatchDB                                               *)
(***************************************************************************)
\* the commits a process has passed to save
SavedCommits(proc) == {x[2] : x \in saved[proc]}

\* C13 as stated: required_patches(c) contains every patch that was saved
\* with c, and is empty for a commit that was never passed to save, whatever
\* save_bad, clear_bad and manual_intervention_required calls were made.
SaveRoundTrip ==
    \A proc \in Procs :
        /\ \A x \in saved[proc] : x[1] \in required_patches(data[proc], x[2])
        /\ \A c \in PatchCommits \ SavedCommits(proc) : required_patches(data[proc], c) = {}

\* C13 amended: required_patches(c) contains, for every patch that was saved
\* with c, the file of the same basename in the directory of the database
\* (the patch itself if it lies there), and is empty for a commit that was
\* never passed to save, whatever save_bad, clear_bad and
\* manual_intervention_required calls were made.
SaveRoundTripByBasename ==
    \A proc \in Procs :
        /\ \A x \in saved[proc] :
               Path(patch_path_prefix, basename(x[1])) \in required_patches(data[proc], x[2])
        /\ \A c \in PatchCommits \ SavedCommits(proc) : required_patches(data[proc], c) = {}

\* a patch was saved for one commit and not for another, and bad combinations
\* and a manual entry were recorded as well
SaveRoundTripWitness ==
    \E proc \in Procs :
        /\ saved[proc] # {}
        /\ PatchCommits \ SavedCommits(proc) # {}
        /\ data[proc].bad # << >>
        /\ data[proc].manual # {}

\* the commits recorded for a basename
Recorded(d, name) == IF name \in DOMAIN d.patches THEN d.patches[name] ELSE {}

\* C14: after save(patch, commits) the recorded commit set of the patch is
\* its previous set united with commits, and the recorded sets of all other
\* patches, the bad memo and the manual list are unchanged.
SaveIsUnion ==
    last.op = "save" =>
        LET d == data[last.proc]
            name == basename(last.patches[1])
        IN  /\ Recorded(d, name) = Recorded(last.data, name) \cup ToSet(last.commits)
            /\ DOMAIN d.patches = DOMAIN last.data.patches \cup {name}
            /\ \A other \in DOMAIN d.patches \ {name} :
                   d.patches[other] = last.data.patches[other]
            /\ d.bad = last.data.bad
            /\ d.manual = last.data.manual

\* save added a new commit to a patch that had a commit recorded, while
\* another patch has commits recorded
SaveIsUnionWitness ==
    /\ last.op = "save"
    /\ Recorded(last.data, basename(last.patches[1])) # {}
    /\ ToSet(last.commits) \ Recorded(last.data, basename(last.patches[1])) # {}
    /\ \E other \in DOMAIN data[last.proc].patches :
           other # basename(last.patches[1]) /\ data[last.proc].patches[other] # {}

\* C15: when several processes hold a PatchDB on the same file, every commit
\* recorded for a patch by a completed save is still in the file after any
\* later mutating call of any process, and the other processes see it.
DurableAcrossProcesses ==
    \A proc \in Procs : \A x \in saved[proc] :
        /\ x[2] \in Recorded(file, basename(x[1]))
        /\ \A other \in Procs :
               Path(patch_path_prefix, basename(x[1])) \in required_patches(data[other], x[2])

\* the basenames of a combination of patches, as a set
NameSet(patches) == ToSet(Basenames(patches))

\* C16: every permutation of a combination recorded by save_bad is known
\* bad, and a list of patches whose set of basenames differs from every
\* recorded combination is not.
BadMemoOrderIndependent ==
    \A proc \in Procs : \A key \in DOMAIN data[proc].bad :
        \A patches \in Combinations :
            is_known_bad(data[proc], patches, key[2], key[1])
              <=> \E i \in 1..Len(data[proc].bad[key]) :
                      ToSet(data[proc].bad[key][i]) = NameSet(patches)

\* C17: after clear_bad(P, commit, project) no permutation of P is known bad,
\* in whatever order and however often the combination was passed to
\* save_bad, and the combinations with another set of basenames stay recorded.
ClearBadRetracts ==
    last.op = "clear_bad" =>
        LET key == <<"gcc", last.commits[1]>>
            before == IF key \in DOMAIN last.data.bad THEN last.data.bad[key] ELSE << >>
            after == IF key \in DOMAIN data[last.proc].bad
                     THEN data[last.proc].bad[key] ELSE << >>
        IN  /\ \A patches \in Combinations :
                   NameSet(patches) = NameSet(last.patches)
                     => ~is_known_bad(data[last.proc], patches, last.commits[1], "gcc")
            /\ after = SelectSeq(before, LAMBDA combo : ToSet(combo) # NameSet(last.patches))

(***************************************************************************)
(* Properties of the Patcher                                               *)
(***************************************************************************)
\* C18: on a linear history with a single boundary commit (every older
\* commit builds, the boundary and every newer commit fail) find_introducer
\* called on a broken revision returns exactly the boundary, for small and
\* large histories and for the boundary being the first or the last commit.
FindIntroducerReturnsBoundary ==
    (pt.op = "find_introducer" /\ pt.pc = "done") =>
        /\ pt.raised = "none"
        /\ pt.ret = pt.boundary

\* C19: when every probed commit fails both without and with the patches,
\* _bisection raises the exception of the double-fail ceiling after exactly
\* max_double_fail failed attempts were answered by a move of the midpoint.
DoubleFailCeiling ==
    (pt.op = "_bisection" /\ pt.pc = "done" /\ pt.dead) =>
        /\ pt.raised = "Exception"
        /\ pt.double_fail_counter = max_double_fail

\* the history has a release that builds without the patches before the first
\* commit that needs them, a release that needs them, and a release at or
\* after the first commit that is fixed
ReleasesAroundRange ==
    /\ \E r \in pt.releases : r < pt.first_needing
    /\ \E r \in pt.releases : pt.first_needing <= r /\ r < pt.first_fixed
    /\ \E r \in pt.releases : r >= pt.first_fixed

\* C20: on a history where exactly the commits from first_needing up to, but
\* excluding, first_fixed need the patch, with a release before the range, one
\* in it and one after it, find_ranges ends with the patch required for every
\* commit from first_needing to patchable_commit and for no release at or
\* after first_fixed.
FindRangesPersists ==
    (pt.op = "find_ranges" /\ pt.pc = "done" /\ ReleasesAroundRange) =>
        /\ pt.raised = "none"
        /\ \A c \in pt.first_needing..pt.patchable_commit :
              \A i \in 1..Len(pt.patches) :
                 Path(patch_path_prefix, basename(pt.patches[i]))
                     \in required_patches(data[Owner], c)
        /\ \A r \in pt.releases :
              r >= pt.first_fixed => required_patches(data[Owner], r) = {}

\* C27: in _bisection a midpoint that builds without patching becomes the new
\* good when failure_is_good is false and the new bad when it is true, a
\* midpoint that builds only with patching becomes the new bad when
\* failure_is_good is false and the new good when it is true, and a midpoint
\* that fails both ways moves neither good nor bad.
BracketMovesByOutcome ==
    [][(pt.op = "_bisection" /\ pt.pc = "bisection" /\ pt' # pt) =>
          LET midpoint == pt'.midpoint
              patching_result == check_building_patches(midpoint, pt.patches).result
              moved_good == pt'.good = midpoint /\ pt'.bad = pt.bad
              moved_bad == pt'.bad = midpoint /\ pt'.good = pt.good
          IN  IF pt'.pc = "done"
              THEN pt'.good = pt.good /\ pt'.bad = pt.bad
              ELSE /\ patching_result = "BuildsWithoutPatching" =>
                         IF pt.failure_is_good THEN moved_bad ELSE moved_good
                   /\ patching_result = "BuildsWithPatching" =>
                         IF pt.failure_is_good THEN moved_good ELSE moved_bad
                   /\ patching_result \notin {"BuildsWithoutPatching",
                                              "BuildsWithPatching"} =>
                         pt'.good = pt.good /\ pt'.bad = pt.bad]_vars

\* C27 witness: under failure_is_good a midpoint that builds only with the
\* patches has become the new good
BracketMovesByOutcomeWitness ==
    /\ pt.op = "_bisection"
    /\ pt.pc = "bisection"
    /\ pt.failure_is_good
    /\ pt.midpoint # NoCommit
    /\ pt.good = pt.midpoint
    /\ ~BuildsUnpatched(pt.midpoint)
    /\ BuildsPatched(pt.midpoint)

\* the first-parent distance between an older and a younger commit
FirstParentDistance(older, younger) == younger - older

\* a step of the given share of a distance, at least one commit
StepOf(percent, distance) ==
    IF (percent * distance) \div 100 > 1 THEN (percent * distance) \div 100 ELSE 1

\* C28: after a midpoint failed both ways the bisection goes on, and the next
\* probe is chosen by the parity of the double-fail counter: on even counts
\* 90% of the distance from bad back toward the failed midpoint, on odd counts
\* 20% of the distance between good and the midpoint, at least one commit;
\* after that probe the search computes midpoints as usual.
RecoveryAlternatesByParity ==
    [][(pt.op = "_bisection" /\ pt.pc = "bisection" /\ pt' # pt) =>
          /\ (/\ ~pt.encountered_double_fail
              /\ pt'.midpoint \notin {pt.midpoint, NoCommit}
              /\ pt'.midpoint \notin pt.cached
              /\ ~BuildsUnpatched(pt'.midpoint)
              /\ ~BuildsPatched(pt'.midpoint)) =>
                 /\ pt'.pc = "bisection"
                 /\ pt'.encountered_double_fail
          /\ (pt.encountered_double_fail /\ pt.double_fail_counter < max_double_fail) =>
                 /\ pt'.midpoint =
                        IF pt.double_fail_counter % 2 = 0
                        THEN pt.bad - StepOf(90, FirstParentDistance(pt.midpoint, pt.bad))
                        ELSE pt.midpoint
                                 - StepOf(20, FirstParentDistance(pt.good, pt.midpoint))
                 /\ ~pt'.encountered_double_fail \/ pt'.pc = "done"]_vars

\* C29: a bisection does not abort on double failures that are not in a row:
\* on a history with a single commit that fails both ways, which can fail at
\* most twice in a row, _bisection ends without an exception.
IsolatedDoubleFailuresTolerated ==
    (/\ pt.op = "_bisection"
     /\ pt.pc = "done"
     /\ ~pt.dead
     /\ Cardinality(pt.broken) <= 1) => pt.raised = "none"

\* C30: _bisection ends either with the bracket it converged to or with the
\* exception of the double-fail ceiling.
BisectionEndsDoneOrDoubleFail ==
    (pt.op = "_bisection" /\ pt.pc = "done") => pt.raised \in {"none", "Exception"}

\* C31: the attempt with exponent k of find_introducer probes the commit
\* 2^k + 10 first-parent steps before the broken revision; the first time
\* that commit is not a descendant of oldest_possible_commit, that commit is
\* probed instead, once, and the search raises if it fails too; the first
\* probe that builds goes to bisect_build as good, with the commit probed
\* before it, or the broken revision, as bad, good being an ancestor of bad.
ExpandingSearch ==
    [][(pt.op = "find_introducer" /\ pt.pc = "search" /\ pt' # pt) =>
          LET target == pt.broken_rev - (2^(pt.exp) + 10)
              inside == target >= pt.oldest_possible_commit
              probed == IF inside THEN target ELSE pt.oldest_possible_commit
          IN  IF pt.hit_upper_bound
              THEN pt'.pc = "done" /\ pt'.raised # "none"
              ELSE /\ pt'.pc # "done"
                   /\ pt'.current_commit = probed
                   /\ pt'.hit_upper_bound = ~inside
                   /\ pt'.pc = "search" => ~Builds(probed) /\ pt'.exp = pt.exp + 1
                   /\ pt'.pc = "bisect_build" =>
                         /\ Builds(probed)
                         /\ pt'.good = probed
                         /\ pt'.bad = pt.current_commit
                         /\ is_ancestor(pt'.good, pt'.bad)]_vars

\* the common ancestors of the releases and trunk with patchable_commit that
\* build without the patches
CleanAncestors ==
    {c \in {get_best_common_ancestor(pt.versions[i], pt.patchable_commit) :
               i \in 1..Len(pt.versions)} : BuildsUnpatched(c)}

\* C32: find_ranges visits the releases newest to oldest, so that the
\* no-patch common ancestor it bisects from is the one of the newest release
\* whose common ancestor with patchable_commit builds without patching.
ReleaseWalkNewestFirst ==
    (pt.op = "find_ranges" /\ pt.no_patch_common_ancestor # NoCommit) =>
        /\ \A i, j \in 1..(Len(pt.versions) - 1) : i < j => pt.versions[i] >= pt.versions[j]
        /\ \A c \in CleanAncestors : pt.no_patch_common_ancestor >= c

\* C32 as the code has it: the releases are visited oldest to newest, trunk
\* last, so that the no-patch common ancestor is a common ancestor of a
\* release or trunk with patchable_commit and no older one of these builds
\* without patching.
ReleaseWalkOldestFirst ==
    (pt.op = "find_ranges" /\ pt.no_patch_common_ancestor # NoCommit) =>
        /\ \A i, j \in 1..Len(pt.versions) : i < j => pt.versions[i] <= pt.versions[j]
        /\ \E i \in 1..Len(pt.versions) :
              pt.no_patch_common_ancestor =
                  get_best_common_ancestor(pt.versions[i], pt.patchable_commit)
        /\ \A c \in CleanAncestors : pt.no_patch_common_ancestor <= c

\* two releases build without the patches and one of them was chosen
ReleaseWalkOldestFirstWitness ==
    /\ pt.op = "find_ranges"
    /\ pt.no_patch_common_ancestor # NoCommit
    /\ Cardinality(CleanAncestors) >= 2

\* C33: in find_fixer_from_introducer_to_releases, for every release that is
\* reachable from the introducer and classified BuildsWithPatching, the
\* commits introducer~1..release are saved for every patch; a release is
\* passed over for a known fixer only when it builds without patching and a
\* fixer found before is its ancestor.
PatchedReleasesRecorded ==
    [][(/\ pt.op = "find_ranges"
        /\ pt.pc = "fixer"
        /\ pt.k <= Len(pt.reachable_releases)
        /\ Ancestor(pt.introducer, 1) # NoCommit) =>
          LET release == pt.reachable_releases[pt.k]
              checked == check_building_patches(release, pt.patches)
              known_fixer == \E fixer \in pt.last_needing_patch_list :
                                is_ancestor(fixer, release)
          IN  /\ checked.result = "BuildsWithPatching" =>
                    /\ pt'.raised = "none"
                    /\ \A i \in 1..Len(pt.patches) :
                          /\ basename(pt.patches[i]) \in DOMAIN data'[Owner].patches
                          /\ \A c \in (pt.introducer)..release :
                                c \in data'[Owner].patches[basename(pt.patches[i])]
              /\ (checked.result = "BuildsWithoutPatching" /\ pt'.pc = "fixer") =>
                    known_fixer]_vars

\* C34: a successful build writes DONE before it removes WORKER_PID, so a
\* waiter that leaves the waiting loop when the build of the holder has
\* succeeded finds the marker and returns the install path; it does not end
\* with an exception.
MarkerPrecedesRelease ==
    [][\A w \in Workers :
          (/\ pc[w] \in WaitSection
           /\ pc'[w] = "idle"
           /\ fs[call[w].project].DONE) =>
              call'[w].res = CachedReturn(call[w].project, call[w].get_executable)]_vars

\* the database records every one of the patches for the commit
AllRecorded(d, c, patches) ==
    \A i \in 1..Len(patches) :
        /\ basename(patches[i]) \in DOMAIN d.patches
        /\ c \in d.patches[basename(patches[i])]

\* C35: _check_building_patches returns BuildsWithPatching without a call of
\* the builder exactly when the commits recorded for every given patch
\* contain the commit, which is so for an empty list of patches; in every
\* other case it calls the builder once or twice.
DatabaseShortCircuit ==
    [][(pt.op = "_check_building_patches" /\ pt' # pt) =>
          IF AllRecorded(data[Owner], pt'.rev, pt'.patches)
          THEN pt'.result = "BuildsWithPatching" /\ pt'.raised = "none" /\ pt'.builds = 0
          ELSE pt'.builds \in 1..2]_vars

\* C35 witness: a call with two patches was answered from the database, after
\* a call that built the commit twice
DatabaseShortCircuitWitness ==
    /\ pt.op = "_check_building_patches"
    /\ Len(pt.patches) = 2
    /\ pt.result = "BuildsWithPatching"
    /\ pt.builds = 0
    /\ AllRecorded(data[Owner], pt.rev, pt.patches)
    /\ pt.needing # {}

\* C36: over the calls of _check_building_patches with the same patches, a
\* commit that was classified BuildsWithPatching after its build without
\* patches failed is not classified BuildsWithoutPatching later.
ClassificationStable ==
    (pt.op = "_check_building_patches" /\ pt.result = "BuildsWithoutPatching") =>
        <<pt.rev, pt.patches>> \notin pt.needing

\* positions inside the with block of build_and_install_compiler, after
\* __enter__ has written WORKER_PID and before __exit__ removes it
HoldingSection == {"worktree", "patch", "recipe", "touch", "exit_remove"}

\* C37: at most one process is inside the locked build section of an install
\* path; while it is inside, the install path and WORKER_PID exist and
\* WORKER_PID holds its pid: no other process, forced or not, overwrites or
\* removes the record or the install path.
LockIdentifiesBuilder ==
    \A w \in Workers :
        pc[w] \in HoldingSection =>
            /\ fs[call[w].project].dir
            /\ fs[call[w].project].pid_exists
            /\ fs[call[w].project].pid = w
            /\ \A v \in Workers \ {w} :
                  ~(pc[v] \in HoldingSection /\ call[v].project = call[w].project)

\* C38: an entry returned by get_closest_built_compiler_in_range is stored
\* with a prefix that holds the DONE marker, and its commit is the query
\* commit or lies on the first-parent path strictly between lower_bound and
\* upper_bound; shift_tested_commit returns its input or such a built commit.
ClosestIsBuiltInRange ==
    /\ last.op = "get_closest_built_compiler_in_range" =>
          \A built \in last.ret :
              /\ Row(built.project, built.commit, built.prefix) \in last.compilers
              /\ built.project = last.info.project
              /\ built.prefix \in markers
              /\ \/ built.commit = last.info.commit
                 \/ last.lower_bound < built.commit /\ built.commit < last.upper_bound
    /\ (last.op = "shift_tested_commit" /\ last.raised = "none") =>
          \E c \in Commits :
              /\ last.ret = Some(c)
              /\ \/ c = last.info.commit
                 \/ /\ c \in BuiltCommits(last.compilers, markers, last.info.project)
                    /\ last.lower_bound < c
                    /\ c < last.upper_bound

\* C38 witness: shift_tested_commit has moved an unbuilt commit to a built
\* commit strictly between the bounds
ClosestIsBuiltInRangeWitness ==
    /\ last.op = "shift_tested_commit"
    /\ last.raised = "none"
    /\ last.ret # Some(last.info.commit)
    /\ last.ret # None

\* C39: in _bisection and in bisect_build, started with good an ancestor of
\* bad, good stays an ancestor of bad or equal to it, every commit probed lies
\* on the first-parent path from good to bad, both ends included, and the
\* number of commits between good and bad never grows.
BracketInvariant ==
    [][((pt.pc \in {"bisection", "bisect_build"} /\ is_ancestor(pt.good, pt.bad)) =>
          /\ pt'.midpoint # pt.midpoint =>
                is_ancestor(pt.good, pt'.midpoint) /\ is_ancestor(pt'.midpoint, pt.bad)
          /\ is_ancestor(pt.good, pt'.good)
          /\ is_ancestor(pt'.good, pt'.bad)
          /\ is_ancestor(pt'.bad, pt.bad)
          /\ FirstParentDistance(pt'.good, pt'.bad) <= FirstParentDistance(pt.good, pt.bad))
       /\ ((pt'.op = "_adjust_bisection_midpoint_after_failure"
            /\ pt'.double_fail_counter < max_double_fail) =>
              /\ pt'.raised = "none"
              /\ is_ancestor(pt'.good, pt'.ret)
              /\ is_ancestor(pt'.ret, pt'.bad))]_vars

\* C39 witness: a bisection has probed a midpoint and moved an end of the
\* bracket to it, after an earlier probe, and the bracket is not yet closed
BracketInvariantWitness ==
    /\ pt.pc \in {"bisection", "bisect_build"}
    /\ pt.midpoint \in {pt.good, pt.bad}
    /\ FirstParentDistance(pt.good, pt.bad) > 1
    /\ \/ pt.op = "_bisection" /\ Cardinality(pt.cached) >= 2
       \/ pt.op = "find_introducer" /\ pt.bad # pt.prev_commit /\ pt.good # pt.current_commit

\* C40: the commit selected by _adjust_bisection_midpoint_after_failure
\* differs from the midpoint that failed twice, for every size of the
\* bracket, so that a recovery step does not probe that commit again.
RecoveryMakesProgress ==
    (pt.op = "_adjust_bisection_midpoint_after_failure" /\ pt.raised = "none") =>
        pt.ret # pt.midpoint

====
